---- MODULE Spec2Model ----
(***************************************************************************)
(* Scoring / attribution / explanation core of the AI SOC platform:        *)
(*   backend/ml/detector.py      EnsembleDetector                          *)
(*   backend/mitre/mapper.py     MITREMapper                               *)
(*   backend/mitre/explainer.py  ExplainableAI                             *)
(* with the attack simulation of the detection loop (backend/main.py) and  *)
(* the playbook sessions (backend/automation/playbooks.py).                *)
(*                                                                         *)
(* Python floats are modelled as exact rationals <<num, den>> (den > 0,    *)
(* lowest terms).  The natural logarithm is computed in fixed point        *)
(* (LnScale units per 1.0) by range reduction and an atanh series.         *)
(***************************************************************************)
EXTENDS Integers, Sequences, FiniteSets, TLC

VARIABLES
    models_loaded,  \* EnsembleDetector.models_loaded
    baselines,      \* MITREMapper.baselines / ExplainableAI.baselines
    techniques,     \* MITREMapper.techniques
    op,             \* the call whose outcome is held: "idle" when none is
    sample,         \* detect: the detectors' scores, apply_realism and the draw
    features,       \* map_to_techniques / explain_anomaly: the feature vector
    top_k,          \* map_to_techniques / explain_anomaly: top_k
    result,         \* the value the call returned (None when it raised)
    again,          \* the value a later call with the same arguments returned
    error,          \* the exception the call raised, "none" when it returned
    calls,          \* per caller: the call it has in progress, with its locals
    attack,         \* threat_detection_loop: the attack sequence being processed
    incidents,      \* DataStore.incidents
    broadcasts,     \* the messages handed to manager.broadcast, in order
    sessions        \* PlaybookManager.sessions, in insertion order

vars == <<models_loaded, baselines, techniques,
          op, sample, features, top_k, result, again, error, calls,
          attack, incidents, broadcasts, sessions>>

-----------------------------------------------------------------------------
(* Rational arithmetic                                                     *)

Abs(i) == IF i < 0 THEN -i ELSE i

RECURSIVE GCD(_, _)
GCD(a, b) == IF b = 0 THEN a ELSE GCD(b, a % b)

\* n/d in lowest terms with a positive denominator
Rat(n, d) ==
    LET s == IF d < 0 THEN -1 ELSE 1
        g == GCD(Abs(n), Abs(d))
    IN  <<(s * n) \div g, (s * d) \div g>>

RInt(i) == <<i, 1>>

RMul(x, y) ==
    LET g1 == GCD(Abs(x[1]), y[2])
        g2 == GCD(Abs(y[1]), x[2])
    IN  Rat((x[1] \div g1) * (y[1] \div g2), (x[2] \div g2) * (y[2] \div g1))

RInv(x) == Rat(x[2], x[1])

RDiv(x, y) == RMul(x, RInv(y))

RAdd(x, y) ==
    LET g == GCD(x[2], y[2])
    IN  Rat(x[1] * (y[2] \div g) + y[1] * (x[2] \div g), (x[2] \div g) * y[2])

RNeg(x) == <<-x[1], x[2]>>

RSub(x, y) == RAdd(x, RNeg(y))

\* comparison by sign of the difference (no cross products)
RLt(x, y) == RSub(x, y)[1] < 0

RLe(x, y) == RSub(x, y)[1] <= 0

RMin(x, y) == IF RLt(y, x) THEN y ELSE x

RMax(x, y) == IF RLt(x, y) THEN y ELSE x

RECURSIVE RSum(_)
RSum(s) == IF s = <<>> THEN RInt(0) ELSE RAdd(s[1], RSum(Tail(s)))

-----------------------------------------------------------------------------
(* Static configuration and registries                                     *)

\* settings.FEATURES, in declaration order
FEATURES ==
    <<"cpu_usage", "memory_usage", "network_in", "network_out",
      "failed_logins", "process_creation", "disk_read", "disk_write",
      "file_access", "api_calls", "dns_queries", "auth_attempts">>

FeatureNames == {FEATURES[i] : i \in 1..Len(FEATURES)}

\* TelemetryGenerator.baselines: the mean of every feature (std, min and max
\* are never read by the mapper or the explainer)
BaselineMeans ==
    [f \in FeatureNames |->
        CASE f = "cpu_usage"        -> Rat(25, 1)
          [] f = "memory_usage"     -> Rat(45, 1)
          [] f = "network_in"       -> Rat(150, 1)
          [] f = "network_out"      -> Rat(80, 1)
          [] f = "failed_logins"    -> Rat(1, 2)
          [] f = "process_creation" -> Rat(5, 1)
          [] f = "disk_read"        -> Rat(200, 1)
          [] f = "disk_write"       -> Rat(100, 1)
          [] f = "file_access"      -> Rat(50, 1)
          [] f = "api_calls"        -> Rat(100, 1)
          [] f = "dns_queries"      -> Rat(30, 1)
          [] f = "auth_attempts"    -> Rat(2, 1)]

TelemetryBaselines == [f \in FeatureNames |-> [mean |-> BaselineMeans[f]]]

\* one entry of a technique's "features" dict
Req(f, t, w) == [feature |-> f, threshold |-> t, weight |-> w]

\* MITRE_TECHNIQUES in declaration order (dicts keep insertion order);
\* description and remediation texts are left out, they are never computed on
MITRE_TECHNIQUES ==
    << [id |-> "T1110", name |-> "Brute Force", tactic |-> "Credential Access",
        features |-> << Req("failed_logins", Rat(3, 1), Rat(35, 100)),
                        Req("auth_attempts", Rat(3, 1), Rat(35, 100)),
                        Req("network_in", Rat(15, 10), Rat(15, 100)),
                        Req("network_out", Rat(15, 10), Rat(15, 100)) >>],
       [id |-> "T1496", name |-> "Resource Hijacking", tactic |-> "Impact",
        features |-> << Req("cpu_usage", Rat(25, 10), Rat(40, 100)),
                        Req("network_out", Rat(2, 1), Rat(25, 100)),
                        Req("process_creation", Rat(2, 1), Rat(25, 100)),
                        Req("memory_usage", Rat(18, 10), Rat(10, 100)) >>],
       [id |-> "T1048", name |-> "Exfiltration Over Alternative Protocol",
        tactic |-> "Exfiltration",
        features |-> << Req("network_out", Rat(3, 1), Rat(35, 100)),
                        Req("disk_read", Rat(25, 10), Rat(25, 100)),
                        Req("file_access", Rat(25, 10), Rat(25, 100)),
                        Req("dns_queries", Rat(2, 1), Rat(15, 100)) >>],
       [id |-> "T1068", name |-> "Exploitation for Privilege Escalation",
        tactic |-> "Privilege Escalation",
        features |-> << Req("process_creation", Rat(3, 1), Rat(35, 100)),
                        Req("api_calls", Rat(25, 10), Rat(25, 100)),
                        Req("memory_usage", Rat(2, 1), Rat(20, 100)),
                        Req("failed_logins", Rat(2, 1), Rat(20, 100)) >>],
       [id |-> "T1071", name |-> "Application Layer Protocol",
        tactic |-> "Command and Control",
        features |-> << Req("network_out", Rat(2, 1), Rat(25, 100)),
                        Req("network_in", Rat(2, 1), Rat(25, 100)),
                        Req("dns_queries", Rat(35, 10), Rat(35, 100)),
                        Req("api_calls", Rat(2, 1), Rat(15, 100)) >>],
       [id |-> "T1021", name |-> "Remote Services", tactic |-> "Lateral Movement",
        features |-> << Req("network_in", Rat(25, 10), Rat(30, 100)),
                        Req("auth_attempts", Rat(25, 10), Rat(30, 100)),
                        Req("process_creation", Rat(2, 1), Rat(25, 100)),
                        Req("failed_logins", Rat(2, 1), Rat(15, 100)) >>],
       [id |-> "T1190", name |-> "Exploit Public-Facing Application",
        tactic |-> "Initial Access",
        features |-> << Req("cpu_usage", Rat(18, 10), Rat(20, 100)),
                        Req("memory_usage", Rat(2, 1), Rat(20, 100)),
                        Req("network_in", Rat(25, 10), Rat(25, 100)),
                        Req("api_calls", Rat(3, 1), Rat(25, 100)),
                        Req("process_creation", Rat(18, 10), Rat(10, 100)) >> ] >>

\* the 0.001 added to a baseline mean before dividing by it
Epsilon == Rat(1, 1000)

\* variant: the baseline's share of the sum, which falls as the value rises
Multiplier_baseline_share(actual, baseline) ==
    RDiv(RAdd(baseline, Epsilon), RAdd(actual, RAdd(baseline, Epsilon)))

\* actual / (baseline + 0.001)
Multiplier(actual, baseline) == RDiv(actual, RAdd(baseline, Epsilon))

\* variant: the slice keeps one element more
SlicePrefix_one_more(s, k) == SubSeq(s, 1, IF k + 1 < Len(s) THEN k + 1 ELSE Len(s))

\* Python's s[:k], negative k included
SlicePrefix(s, k) ==
    IF k >= 0 THEN SubSeq(s, 1, IF k < Len(s) THEN k ELSE Len(s))
    ELSE SubSeq(s, 1, IF Len(s) + k > 0 THEN Len(s) + k ELSE 0)

\* variant: an element is placed before the elements equal to it
RECURSIVE InsertDesc_before_equals(_, _, _)
InsertDesc_before_equals(sorted, e, i) ==
    IF i > Len(sorted) THEN Append(sorted, e)
    ELSE IF RLe(sorted[i].score, e.score)
         THEN SubSeq(sorted, 1, i - 1) \o <<e>> \o SubSeq(sorted, i, Len(sorted))
         ELSE InsertDesc_before_equals(sorted, e, i + 1)

\* list.sort(key=lambda x: x[0], reverse=True): descending by score, stable
RECURSIVE InsertDesc(_, _, _)
InsertDesc(sorted, e, i) ==
    IF i > Len(sorted) THEN Append(sorted, e)
    ELSE IF RLt(sorted[i].score, e.score)
         THEN SubSeq(sorted, 1, i - 1) \o <<e>> \o SubSeq(sorted, i, Len(sorted))
         ELSE InsertDesc(sorted, e, i + 1)

RECURSIVE SortDesc(_, _)
SortDesc(s, n) ==
    IF n = 0 THEN <<>> ELSE InsertDesc(SortDesc(s, n - 1), s[n], 1)

SortByScore(s) == SortDesc(s, Len(s))

-----------------------------------------------------------------------------
(* MITREMapper                                                             *)

\* variant: total_weight also counts the present features that do not match
RECURSIVE MatchLoop_weighs_all_present(_, _, _, _)
MatchLoop_weighs_all_present(fv, base, reqs, n) ==
    IF n = 0
    THEN [weighted_score |-> RInt(0), total_weight |-> RInt(0),
          matched_features |-> <<>>]
    ELSE LET acc == MatchLoop_weighs_all_present(fv, base, reqs, n - 1)
             r   == reqs[n]
         IN  IF r.feature \notin DOMAIN fv THEN acc
             ELSE LET deviation_multiplier ==
                          Multiplier(fv[r.feature], base[r.feature].mean)
                      feature_score ==
                          RMin(RDiv(RSub(deviation_multiplier, r.threshold),
                                    r.threshold), RInt(1))
                  IN  IF RLe(r.threshold, deviation_multiplier)
                      THEN [weighted_score |->
                                RAdd(acc.weighted_score,
                                     RMul(feature_score, r.weight)),
                            total_weight |-> RAdd(acc.total_weight, r.weight),
                            matched_features |->
                                Append(acc.matched_features, r.feature)]
                      ELSE [acc EXCEPT !.total_weight = RAdd(@, r.weight)]

\* variant: a feature matches only when its multiplier exceeds the threshold
RECURSIVE MatchLoop_strictly_above(_, _, _, _)
MatchLoop_strictly_above(fv, base, reqs, n) ==
    IF n = 0
    THEN [weighted_score |-> RInt(0), total_weight |-> RInt(0),
          matched_features |-> <<>>]
    ELSE LET acc == MatchLoop_strictly_above(fv, base, reqs, n - 1)
             r   == reqs[n]
         IN  IF r.feature \notin DOMAIN fv THEN acc
             ELSE LET deviation_multiplier ==
                          Multiplier(fv[r.feature], base[r.feature].mean)
                      feature_score ==
                          RMin(RDiv(RSub(deviation_multiplier, r.threshold),
                                    r.threshold), RInt(1))
                  IN  IF RLt(r.threshold, deviation_multiplier)
                      THEN [weighted_score |->
                                RAdd(acc.weighted_score,
                                     RMul(feature_score, r.weight)),
                            total_weight |-> RAdd(acc.total_weight, r.weight),
                            matched_features |->
                                Append(acc.matched_features, r.feature)]
                      ELSE acc

\* variant: every required feature present in the input is listed as matched
RECURSIVE MatchLoop_lists_all_present(_, _, _, _)
MatchLoop_lists_all_present(fv, base, reqs, n) ==
    IF n = 0
    THEN [weighted_score |-> RInt(0), total_weight |-> RInt(0),
          matched_features |-> <<>>]
    ELSE LET acc == MatchLoop_lists_all_present(fv, base, reqs, n - 1)
             r   == reqs[n]
         IN  IF r.feature \notin DOMAIN fv THEN acc
             ELSE LET deviation_multiplier ==
                          Multiplier(fv[r.feature], base[r.feature].mean)
                      feature_score ==
                          RMin(RDiv(RSub(deviation_multiplier, r.threshold),
                                    r.threshold), RInt(1))
                  IN  IF RLe(r.threshold, deviation_multiplier)
                      THEN [weighted_score |->
                                RAdd(acc.weighted_score,
                                     RMul(feature_score, r.weight)),
                            total_weight |-> RAdd(acc.total_weight, r.weight),
                            matched_features |->
                                Append(acc.matched_features, r.feature)]
                      ELSE [acc EXCEPT !.matched_features = Append(@, r.feature)]

\* the loop of _score_technique over feature_map: weighted_score,
\* total_weight and matched_features after the first n requirements
RECURSIVE MatchLoop(_, _, _, _)
MatchLoop(fv, base, reqs, n) ==
    IF n = 0
    THEN [weighted_score |-> RInt(0), total_weight |-> RInt(0),
          matched_features |-> <<>>]
    ELSE LET acc == MatchLoop(fv, base, reqs, n - 1)
             r   == reqs[n]
         IN  IF r.feature \notin DOMAIN fv THEN acc
             ELSE LET deviation_multiplier ==
                          Multiplier(fv[r.feature], base[r.feature].mean)
                      feature_score ==
                          RMin(RDiv(RSub(deviation_multiplier, r.threshold),
                                    r.threshold), RInt(1))
                  IN  IF RLe(r.threshold, deviation_multiplier)
                      THEN [weighted_score |->
                                RAdd(acc.weighted_score,
                                     RMul(feature_score, r.weight)),
                            total_weight |-> RAdd(acc.total_weight, r.weight),
                            matched_features |->
                                Append(acc.matched_features, r.feature)]
                      ELSE acc

\* variant: 0.1 per matched feature
MatchBonus_tenth(matched) == RMin(RMul(RInt(Len(matched)), Rat(1, 10)), Rat(2, 10))

\* min(len(matched_features) * 0.05, 0.2)
MatchBonus(matched) == RMin(RMul(RInt(Len(matched)), Rat(5, 100)), Rat(2, 10))

\* the cap applied to final_score + match_bonus
ScoreCap == Rat(95, 100)

\* _score_technique: (final_score, matched_features)
_score_technique(fv, base, technique_data) ==
    LET m == MatchLoop(fv, base, technique_data.features,
                       Len(technique_data.features))
    IN  IF RLt(RInt(0), m.total_weight)
        THEN [score |-> RMin(RAdd(RDiv(m.weighted_score, m.total_weight),
                                  MatchBonus(m.matched_features)), ScoreCap),
              matched_features |-> m.matched_features]
        ELSE [score |-> RInt(0), matched_features |-> m.matched_features]

\* the minimum confidence a technique needs to be reported
MinConfidence == Rat(3, 10)

\* variant: the floor itself passes
AboveFloor_inclusive(score) == RLe(MinConfidence, score)

\* the filter of map_to_techniques
AboveFloor(score) == RLt(MinConfidence, score)

\* technique_scores before sorting: one (score, MITRETechnique) per technique
\* whose score passes the floor, in registry order
RECURSIVE TechniqueScores(_, _, _, _)
TechniqueScores(fv, base, techs, n) ==
    IF n = 0 THEN <<>>
    ELSE LET rest == TechniqueScores(fv, base, techs, n - 1)
             st   == _score_technique(fv, base, techs[n])
         IN  IF AboveFloor(st.score)
             THEN Append(rest,
                         [score |-> st.score,
                          technique |->
                              [technique_id |-> techs[n].id,
                               name |-> techs[n].name,
                               tactic |-> techs[n].tactic,
                               confidence |-> st.score,
                               matched_features |-> st.matched_features]])
             ELSE rest

\* map_to_techniques
map_to_techniques(fv, k, base, techs) ==
    LET sorted == SortByScore(TechniqueScores(fv, base, techs, Len(techs)))
        top    == SlicePrefix(sorted, k)
    IN  [i \in 1..Len(top) |-> top[i].technique]

\* variant: a required feature absent from the input is looked up all the same
RECURSIVE MatchLoopError_no_skip(_, _, _, _)
MatchLoopError_no_skip(fv, base, reqs, n) ==
    IF n = 0 THEN "none"
    ELSE LET before == MatchLoopError_no_skip(fv, base, reqs, n - 1)
         IN  IF before # "none" THEN before
             ELSE IF reqs[n].feature \notin DOMAIN base THEN "KeyError"
             ELSE IF reqs[n].feature \notin DOMAIN fv THEN "KeyError"
             ELSE "none"

\* the exception the loop of _score_technique raises within its first n
\* requirements, "none" when it raises none: self.baselines[feature_name] of
\* a feature the registry lacks, a zero divisor
RECURSIVE MatchLoopError(_, _, _, _)
MatchLoopError(fv, base, reqs, n) ==
    IF n = 0 THEN "none"
    ELSE LET before == MatchLoopError(fv, base, reqs, n - 1)
             r      == reqs[n]
         IN  IF before # "none" THEN before
             ELSE IF r.feature \notin DOMAIN fv THEN "none"
             ELSE IF r.feature \notin DOMAIN base THEN "KeyError"
             ELSE IF RAdd(base[r.feature].mean, Epsilon) = RInt(0)
                  THEN "ZeroDivisionError"
             ELSE IF /\ r.threshold = RInt(0)
                     /\ RLe(r.threshold,
                            Multiplier(fv[r.feature], base[r.feature].mean))
                  THEN "ZeroDivisionError"
             ELSE "none"

\* the exception map_to_techniques raises within its first n techniques
RECURSIVE map_to_techniques_error(_, _, _, _)
map_to_techniques_error(fv, base, techs, n) ==
    IF n = 0 THEN "none"
    ELSE LET before == map_to_techniques_error(fv, base, techs, n - 1)
         IN  IF before # "none" THEN before
             ELSE MatchLoopError(fv, base, techs[n].features,
                                 Len(techs[n].features))

-----------------------------------------------------------------------------
(* Fixed-point natural logarithm                                           *)

\* fixed-point units per 1.0
LnScale == 10 ^ 4

\* the first k decimal digits of r/d (0 <= r < d), as an integer
RECURSIVE FracDigits(_, _, _)
FracDigits(r, d, k) ==
    IF k = 0 THEN 0
    ELSE ((r * 10) \div d) * (10 ^ (k - 1)) + FracDigits((r * 10) % d, d, k - 1)

\* floor(x * LnScale) for a rational x >= 0
ToFixed(x) == (x[1] \div x[2]) * LnScale + FracDigits(x[1] % x[2], x[2], 4)

\* ln of a fixed-point z in [0.75, 1.5): 2 * atanh((z - 1) / (z + 1))
LnNearOne(z) ==
    LET y  == ((z - LnScale) * LnScale) \div (z + LnScale)
        y2 == (y * y) \div LnScale
        y3 == (y2 * y) \div LnScale
        y5 == (y3 * y2) \div LnScale
    IN  2 * (y + (y3 \div 3) + (y5 \div 5))

\* ln of a fixed-point z > 0, reduced to [0.75, 1.5) by powers of two
RECURSIVE LnFixed(_)
LnFixed(z) ==
    LET ln2 == 6931
    IN  IF 2 * z >= 3 * LnScale THEN ln2 + LnFixed(z \div 2)
        ELSE IF 4 * z < 3 * LnScale THEN LnFixed(2 * z) - ln2
        ELSE LnNearOne(z)

\* np.log of a positive rational, as a rational
Log(x) == Rat(LnFixed(ToFixed(x)), LnScale)

RAbs(x) == <<Abs(x[1]), x[2]>>

-----------------------------------------------------------------------------
(* ExplainableAI                                                           *)

\* variant: the offset is 1 instead of 0.1
ContributionScore_offset_one(deviation_multiplier) ==
    RMax(RInt(0), RAbs(Log(RAdd(deviation_multiplier, RInt(1)))))

\* max(0, np.abs(np.log(deviation_multiplier + 0.1)))
ContributionScore(deviation_multiplier) ==
    RMax(RInt(0), RAbs(Log(RAdd(deviation_multiplier, Rat(1, 10)))))

\* variant: a feature absent from the input is evaluated as the value 0
RECURSIVE Contributions_zero_fills(_, _, _)
Contributions_zero_fills(fv, base, n) ==
    IF n = 0 THEN <<>>
    ELSE LET feature_name == FEATURES[n]
             value == IF feature_name \in DOMAIN fv THEN fv[feature_name]
                      ELSE RInt(0)
             baseline == base[feature_name].mean
             deviation_multiplier == Multiplier(value, baseline)
         IN  Append(Contributions_zero_fills(fv, base, n - 1),
                    [score |-> ContributionScore(deviation_multiplier),
                     contrib |->
                        [feature |-> feature_name,
                         value |-> value,
                         baseline_mean |-> baseline,
                         deviation |-> RSub(value, baseline),
                         deviation_multiplier |-> deviation_multiplier,
                         contribution_percent |-> RInt(0)]])

\* the loop of explain_anomaly over settings.FEATURES: one
\* (contribution_score, FeatureContribution) per feature present in the input
RECURSIVE Contributions(_, _, _)
Contributions(fv, base, n) ==
    IF n = 0 THEN <<>>
    ELSE LET rest == Contributions(fv, base, n - 1)
             feature_name == FEATURES[n]
         IN  IF feature_name \notin DOMAIN fv THEN rest
             ELSE LET value    == fv[feature_name]
                      baseline == base[feature_name].mean
                      deviation_multiplier == Multiplier(value, baseline)
                  IN  Append(rest,
                        [score |-> ContributionScore(deviation_multiplier),
                         contrib |->
                            [feature |-> feature_name,
                             value |-> value,
                             baseline_mean |-> baseline,
                             deviation |-> RSub(value, baseline),
                             deviation_multiplier |-> deviation_multiplier,
                             contribution_percent |-> RInt(0)]])

\* variant: the total of the three rendered contributions only
TotalScore_of_top3(contributions) ==
    RSum([i \in 1..(IF Len(contributions) < 3 THEN Len(contributions) ELSE 3)
            |-> contributions[i].score])

\* sum([c[0] for c in contributions])
TotalScore(contributions) ==
    RSum([i \in 1..Len(contributions) |-> contributions[i].score])

\* the percentage pass of explain_anomaly over the sorted contributions
WithPercent(contributions) ==
    LET total_score == TotalScore(contributions)
    IN  IF RLt(RInt(0), total_score)
        THEN [i \in 1..Len(contributions) |->
                [contributions[i] EXCEPT
                    !.contrib.contribution_percent =
                        RMul(RDiv(contributions[i].score, total_score),
                             RInt(100))]]
        ELSE contributions

\* all contributions, sorted and with their percentages, before truncation
RankedContributions(fv, base) ==
    WithPercent(SortByScore(Contributions(fv, base, Len(FEATURES))))

\* feature.replace("_", " ").title()
Title(f) ==
    CASE f = "cpu_usage"        -> "Cpu Usage"
      [] f = "memory_usage"     -> "Memory Usage"
      [] f = "network_in"       -> "Network In"
      [] f = "network_out"      -> "Network Out"
      [] f = "failed_logins"    -> "Failed Logins"
      [] f = "process_creation" -> "Process Creation"
      [] f = "disk_read"        -> "Disk Read"
      [] f = "disk_write"       -> "Disk Write"
      [] f = "file_access"      -> "File Access"
      [] f = "api_calls"        -> "Api Calls"
      [] f = "dns_queries"      -> "Dns Queries"
      [] f = "auth_attempts"    -> "Auth Attempts"

\* f"{x:.1f}" of x >= 0: the number of tenths, ties to even
Format1f(x) ==
    LET t    == RMul(x, RInt(10))
        q    == t[1] \div t[2]
        twoR == 2 * (t[1] % t[2])
    IN  IF twoR > t[2] \/ (twoR = t[2] /\ q % 2 = 1) THEN q + 1 ELSE q

\* variant: a multiplier of exactly 1.0 is labelled slightly elevated
Severity_one_is_elevated(m) ==
    IF RLt(Rat(15, 10), m) THEN "significantly elevated"
    ELSE IF RLt(Rat(12, 10), m) THEN "moderately elevated"
    ELSE IF RLe(RInt(1), m) THEN "slightly elevated"
    ELSE IF RLt(m, Rat(6, 10)) THEN "significantly reduced"
    ELSE IF RLt(m, Rat(8, 10)) THEN "moderately reduced"
    ELSE "slightly reduced"

\* the severity band of a deviation multiplier
Severity(m) ==
    IF RLt(Rat(15, 10), m) THEN "significantly elevated"
    ELSE IF RLt(Rat(12, 10), m) THEN "moderately elevated"
    ELSE IF RLt(RInt(1), m) THEN "slightly elevated"
    ELSE IF RLt(m, Rat(6, 10)) THEN "significantly reduced"
    ELSE IF RLt(m, Rat(8, 10)) THEN "moderately reduced"
    ELSE "slightly reduced"

\* any(c.feature == f and c.deviation_multiplier > bound for c in contributions)
AnyAbove(contributions, f, bound) ==
    \E i \in 1..Len(contributions) :
        /\ contributions[i].feature = f
        /\ RLt(bound, contributions[i].deviation_multiplier)

HintHijack == "Pattern consistent with cryptocurrency mining or resource hijacking"

HintBruteForce == "Possible brute force attack or credential stuffing attempt"

HintExfiltration == "Large data transfer detected - possible data exfiltration"

\* variant: the exfiltration rule does not look at the cpu condition
_add_context_exfiltration_ignores_cpu(contributions, fv, base) ==
    LET cpu_high           == AnyAbove(contributions, "cpu_usage", Rat(25, 10))
        network_out_high   == AnyAbove(contributions, "network_out", Rat(25, 10))
        failed_logins_high == AnyAbove(contributions, "failed_logins", RInt(2))
        disk_read     == IF "disk_read" \in DOMAIN fv THEN fv["disk_read"]
                         ELSE RInt(0)
    IN  (IF cpu_high /\ network_out_high THEN <<HintHijack>> ELSE <<>>)
        \o (IF failed_logins_high THEN <<HintBruteForce>> ELSE <<>>)
        \o (IF /\ network_out_high
               /\ RLt(RMul(base["disk_read"].mean, RInt(2)), disk_read)
            THEN <<HintExfiltration>> ELSE <<>>)

\* _add_context: the advisory sentences, in the order they are appended
_add_context(contributions, fv, base) ==
    LET cpu_high           == AnyAbove(contributions, "cpu_usage", Rat(25, 10))
        network_out_high   == AnyAbove(contributions, "network_out", Rat(25, 10))
        failed_logins_high == AnyAbove(contributions, "failed_logins", RInt(2))
        disk_read     == IF "disk_read" \in DOMAIN fv THEN fv["disk_read"]
                         ELSE RInt(0)
        baseline_disk == base["disk_read"].mean
    IN  (IF cpu_high /\ network_out_high THEN <<HintHijack>> ELSE <<>>)
        \o (IF failed_logins_high THEN <<HintBruteForce>> ELSE <<>>)
        \o (IF /\ network_out_high
               /\ ~cpu_high
               /\ RLt(RMul(baseline_disk, RInt(2)), disk_read)
            THEN <<HintExfiltration>> ELSE <<>>)

NoDeviations == "No significant deviations detected."

\* variant: no early return on an empty contribution list
_generate_explanation_no_early_return(contributions, fv, base) ==
    LET shown == SlicePrefix(contributions, 3)
    IN  [header |-> "Anomalous behavior detected:",
         lines |->
           [i \in 1..Len(shown) |->
               [name |-> Title(shown[i].feature),
                severity |-> Severity(shown[i].deviation_multiplier),
                multiplier |-> Format1f(shown[i].deviation_multiplier),
                percent |-> Format1f(shown[i].contribution_percent)]],
         context |-> _add_context(contributions, fv, base)]

\* _generate_explanation: the text as its parts (header, one line per
\* rendered feature, context sentences)
_generate_explanation(contributions, fv, base) ==
    IF contributions = <<>>
    THEN [header |-> NoDeviations, lines |-> <<>>, context |-> <<>>]
    ELSE LET shown == SlicePrefix(contributions, 3)
         IN  [header |-> "Anomalous behavior detected:",
              lines |->
                [i \in 1..Len(shown) |->
                    [name |-> Title(shown[i].feature),
                     severity |-> Severity(shown[i].deviation_multiplier),
                     multiplier |-> Format1f(shown[i].deviation_multiplier),
                     percent |-> Format1f(shown[i].contribution_percent)]],
              context |-> _add_context(contributions, fv, base)]

\* explain_anomaly: (top_contributions, explanation)
explain_anomaly(fv, k, base) ==
    LET contributions == RankedContributions(fv, base)
        cut == SlicePrefix(contributions, k)
        top_contributions == [i \in 1..Len(cut) |-> cut[i].contrib]
    IN  [contributions |-> top_contributions,
         explanation |-> _generate_explanation(top_contributions, fv, base)]

\* the exception the loop of explain_anomaly raises within the first n
\* features, "none" when it raises none
RECURSIVE ContributionsError(_, _, _)
ContributionsError(fv, base, n) ==
    IF n = 0 THEN "none"
    ELSE LET before == ContributionsError(fv, base, n - 1)
             f      == FEATURES[n]
         IN  IF before # "none" THEN before
             ELSE IF f \notin DOMAIN fv THEN "none"
             ELSE IF f \notin DOMAIN base THEN "KeyError"
             ELSE IF RAdd(base[f].mean, Epsilon) = RInt(0)
                  THEN "ZeroDivisionError"
             ELSE "none"

\* the exception explain_anomaly raises: one of its loop, or the KeyError of
\* self.baselines["disk_read"] in _add_context when that line is reached
explain_anomaly_error(fv, k, base) ==
    LET e == ContributionsError(fv, base, Len(FEATURES))
    IN  IF e # "none" THEN e
        ELSE LET cut == SlicePrefix(RankedContributions(fv, base), k)
                 top == [i \in 1..Len(cut) |-> cut[i].contrib]
             IN  IF /\ top # <<>>
                    /\ AnyAbove(top, "network_out", Rat(25, 10))
                    /\ ~AnyAbove(top, "cpu_usage", Rat(25, 10))
                    /\ "disk_read" \notin DOMAIN base
                 THEN "KeyError"
                 ELSE "none"

-----------------------------------------------------------------------------
(* EnsembleDetector                                                        *)

\* the absent value (Python's None, an empty result)
None == <<>>

\* settings.ENSEMBLE_THRESHOLD
ENSEMBLE_THRESHOLD == Rat(55, 100)

\* settings.FALSE_POSITIVE_RATE
FALSE_POSITIVE_RATE == Rat(8, 100)

\* settings.MISSED_DETECTION_RATE
MISSED_DETECTION_RATE == Rat(12, 100)

\* variant: the sum is always divided by the number of detectors
Mean_over_four(s) == RDiv(RSum(s), RInt(4))

\* np.mean
Mean(s) == RDiv(RSum(s), RInt(Len(s)))

\* np.var (population variance)
Var(s) ==
    LET mu == Mean(s)
    IN  Mean([i \in 1..Len(s) |-> RMul(RSub(s[i], mu), RSub(s[i], mu))])

\* np.clip
Clip(x, lo, hi) == RMin(RMax(x, lo), hi)

\* variant: the two rates are exchanged
_apply_realism_rates_swapped(is_anomaly, ensemble_score, draw) ==
    IF ~is_anomaly /\ RLt(draw, MISSED_DETECTION_RATE)
                   /\ RLt(Rat(4, 10), ensemble_score)
    THEN TRUE
    ELSE IF is_anomaly /\ RLt(draw, FALSE_POSITIVE_RATE)
                       /\ RLt(ensemble_score, Rat(75, 100))
         THEN FALSE
         ELSE is_anomaly

\* variant: the two flips do not look at the ensemble score
_apply_realism_ignores_score(is_anomaly, ensemble_score, draw) ==
    IF ~is_anomaly /\ RLt(draw, FALSE_POSITIVE_RATE)
    THEN TRUE
    ELSE IF is_anomaly /\ RLt(draw, MISSED_DETECTION_RATE)
         THEN FALSE
         ELSE is_anomaly

\* _apply_realism; draw is the value np.random.random() returns in the one
\* condition that is evaluated
_apply_realism(is_anomaly, ensemble_score, draw) ==
    IF ~is_anomaly /\ RLt(draw, FALSE_POSITIVE_RATE)
                   /\ RLt(Rat(4, 10), ensemble_score)
    THEN TRUE
    ELSE IF is_anomaly /\ RLt(draw, MISSED_DETECTION_RATE)
                       /\ RLt(ensemble_score, Rat(75, 100))
         THEN FALSE
         ELSE is_anomaly

\* variant: the final clip is missing
_calculate_confidence_unclipped(scores_list, ensemble_score) ==
    LET confidence == RDiv(RInt(1), RAdd(RInt(1), RMul(Var(scores_list), RInt(5))))
    IN  IF \/ RLt(Rat(8, 10), ensemble_score)
           \/ RLt(ensemble_score, Rat(2, 10))
        THEN RMul(confidence, Rat(11, 10))
        ELSE confidence

\* variant: the boost is applied after the clip
_calculate_confidence_boost_last(scores_list, ensemble_score) ==
    LET confidence == Clip(RDiv(RInt(1),
                                RAdd(RInt(1), RMul(Var(scores_list), RInt(5)))),
                           Rat(65, 100), Rat(95, 100))
    IN  IF \/ RLt(Rat(8, 10), ensemble_score)
           \/ RLt(ensemble_score, Rat(2, 10))
        THEN RMul(confidence, Rat(11, 10))
        ELSE confidence

\* _calculate_confidence
_calculate_confidence(scores_list, ensemble_score) ==
    LET variance   == Var(scores_list)
        confidence == RDiv(RInt(1), RAdd(RInt(1), RMul(variance, RInt(5))))
        boosted    == IF \/ RLt(Rat(8, 10), ensemble_score)
                         \/ RLt(ensemble_score, Rat(2, 10))
                      THEN RMul(confidence, Rat(11, 10))
                      ELSE confidence
    IN  Clip(boosted, Rat(65, 100), Rat(95, 100))

\* the body of detect's loop for one sample: the AnomalyScore built from the
\* detectors' scores (lstm_score is None when the sequence detector gave none)
detect(ae_score, if_score, lof_score, lstm_score, apply_realism, draw) ==
    LET scores_list == <<ae_score, if_score, lof_score>>
                       \o (IF lstm_score # None THEN <<lstm_score>> ELSE <<>>)
        ensemble_score == Mean(scores_list)
        raw == RLt(ENSEMBLE_THRESHOLD, ensemble_score)
    IN  [autoencoder_score |-> ae_score,
         isolation_forest_score |-> if_score,
         lof_score |-> lof_score,
         lstm_score |-> lstm_score,
         ensemble_score |-> ensemble_score,
         is_anomaly |-> IF apply_realism
                        THEN _apply_realism(raw, ensemble_score, draw)
                        ELSE raw,
         confidence |-> _calculate_confidence(scores_list, ensemble_score)]

-----------------------------------------------------------------------------
(* Inputs                                                                  *)

\* largest top_k passed to map_to_techniques and explain_anomaly
MaxTopK == 4

\* detector scores are drawn from {0, 1/ScoreSteps, ..., 1}
ScoreSteps == 4

TopKs == 0..MaxTopK

ScoreGrid == {Rat(i, ScoreSteps) : i \in 0..ScoreSteps}

\* values of np.random.random(): below both rates, between them, above both
Draws == {RInt(0), Rat(1, 10), Rat(1, 2)}

\* samples whose scores lie on and just above the ensemble threshold
ThresholdSamples ==
    [ae : {Rat(55, 100)}, iforest : {Rat(55, 100)},
     lof : {Rat(55, 100), Rat(58, 100)},
     lstm : {None, Rat(55, 100), Rat(59, 100)},
     apply_realism : BOOLEAN, draw : Draws]

Samples ==
    [ae : ScoreGrid, iforest : ScoreGrid, lof : ScoreGrid,
     lstm : ScoreGrid \cup {None}, apply_realism : BOOLEAN, draw : Draws]
    \cup ThresholdSamples

\* the value of feature f whose multiplier is exactly tenths/10
AtMultiple(f, tenths) == RMul(Rat(tenths, 10), RAdd(BaselineMeans[f], Epsilon))

\* the features the generated vectors range over, with their multipliers
InputFeatures == {"cpu_usage", "network_out", "failed_logins", "disk_read"}

InputMultiples ==
    [f \in InputFeatures |->
        CASE f = "cpu_usage"     -> {0, 9, 30, 60}
          [] f = "network_out"   -> {9, 30, 60}
          [] f = "failed_logins" -> {9, 21, 25, 30, 60}
          [] f = "disk_read"     -> {9, 30}]

GridVectors ==
    UNION {{[f \in S |-> AtMultiple(f, c[f])] :
                c \in {c \in [S -> {0, 9, 21, 25, 30, 60}] :
                          \A f \in S : c[f] \in InputMultiples[f]}} :
           S \in SUBSET InputFeatures}

\* a vector with one more key
Extended(fv, key, v) ==
    [f \in DOMAIN fv \cup {key} |-> IF f = key THEN v ELSE fv[f]]

\* vectors with values given absolutely
ScenarioVectors ==
    {[f \in {"failed_logins"} |-> RInt(15)],
     [f \in {"cpu_usage"} |-> RInt(85)],
     [f \in {"cpu_usage"} |-> BaselineMeans[f]],
     [f \in {"cpu_usage", "failed_logins"} |-> BaselineMeans[f]],
     [f \in {"cpu_usage", "memory_usage", "network_in", "api_calls",
             "process_creation"} |-> AtMultiple(f, 30)],
     [f \in {"failed_logins", "auth_attempts", "network_in", "network_out"}
         |-> AtMultiple(f, IF f = "auth_attempts" THEN 9 ELSE 30)]}

\* vectors that also carry a key outside settings.FEATURES (a telemetry
\* point's hostname), under two values of it
TaggedVectors ==
    LET tagged == ScenarioVectors
                  \cup {fv \in GridVectors :
                           DOMAIN fv \subseteq {"failed_logins", "disk_read"}}
    IN  {Extended(fv, "hostname", h) : fv \in tagged, h \in {"web-01", "db-02"}}

\* one-feature vectors whose multiplier lies on and between the bounds of the
\* severity bands of _generate_explanation
BandVectors ==
    {[f \in {"cpu_usage"} |-> AtMultiple(f, m)] : m \in {6, 7, 8, 10, 11, 12, 13, 15}}

FeatureVectors ==
    GridVectors \cup ScenarioVectors \cup TaggedVectors \cup BandVectors

\* the threads that call into the detector, the mapper and the explainer
Callers == {"loop", "route"}

\* a caller with no call in progress
NoCall == [kind |-> "none", pc |-> "idle"]

\* the detection loop between two attack sequences
NoAttack == [pc |-> "idle", n |-> 0, sequence |-> <<>>, i |-> 0]

-----------------------------------------------------------------------------
(* The state machine                                                       *)

Init ==
    /\ models_loaded = FALSE
    /\ baselines = TelemetryBaselines
    /\ techniques = MITRE_TECHNIQUES
    /\ op = "idle"
    /\ sample = None
    /\ features = None
    /\ top_k = 0
    /\ result = None
    /\ again = None
    /\ error = "none"
    /\ calls = [c \in Callers |-> NoCall]
    /\ attack = NoAttack
    /\ incidents = <<>>
    /\ broadcasts = <<>>
    /\ sessions = <<>>

\* load_models
LoadModels ==
    /\ op = "idle"
    /\ ~models_loaded
    /\ models_loaded' = TRUE
    /\ UNCHANGED <<attack, incidents, broadcasts, sessions>>
    /\ UNCHANGED <<calls, baselines, techniques, op, sample, features, top_k,
                   result, again, error>>

\* variant: the models_loaded check is missing
Detect_unguarded(s) ==
    /\ op = "idle"
    /\ op' = "detect"
    /\ sample' = s
    /\ error' = "none"
    /\ result' = detect(s.ae, s.iforest, s.lof, s.lstm, s.apply_realism, s.draw)
    /\ UNCHANGED <<attack, incidents, broadcasts, sessions>>
    /\ UNCHANGED <<calls, models_loaded, baselines, techniques, features, top_k, again>>

\* detect on one sample: raises when the models are not loaded
Detect(s) ==
    /\ op = "idle"
    /\ op' = "detect"
    /\ sample' = s
    /\ IF ~models_loaded
       THEN /\ error' = "RuntimeError"
            /\ result' = None
       ELSE /\ error' = "none"
            /\ result' = detect(s.ae, s.iforest, s.lof, s.lstm,
                                s.apply_realism, s.draw)
    /\ UNCHANGED <<attack, incidents, broadcasts, sessions>>
    /\ UNCHANGED <<calls, models_loaded, baselines, techniques, features, top_k, again>>

\* map_to_techniques(features, top_k)
Attribute(fv, k) ==
    /\ op = "idle"
    /\ op' = "attribute"
    /\ features' = fv
    /\ top_k' = k
    /\ error' = map_to_techniques_error(fv, baselines, techniques,
                                        Len(techniques))
    /\ result' = IF error' = "none"
                 THEN map_to_techniques(fv, k, baselines, techniques)
                 ELSE None
    /\ UNCHANGED <<attack, incidents, broadcasts, sessions>>
    /\ UNCHANGED <<calls, models_loaded, baselines, techniques, sample, again>>

\* variant: the call rescales the baseline it read
Explain_rescales_baseline(fv, k) ==
    /\ op = "idle"
    /\ op' = "explain"
    /\ features' = fv
    /\ top_k' = k
    /\ result' = explain_anomaly(fv, k, baselines)
    /\ baselines' = [f \in DOMAIN baselines |->
                        [mean |-> RMul(baselines[f].mean, RInt(2))]]
    /\ UNCHANGED <<attack, incidents, broadcasts, sessions>>
    /\ UNCHANGED <<calls, models_loaded, techniques, sample, again, error>>

\* explain_anomaly(features, top_k)
Explain(fv, k) ==
    /\ op = "idle"
    /\ op' = "explain"
    /\ features' = fv
    /\ top_k' = k
    /\ error' = explain_anomaly_error(fv, k, baselines)
    /\ result' = IF error' = "none"
                 THEN explain_anomaly(fv, k, baselines)
                 ELSE None
    /\ UNCHANGED <<attack, incidents, broadcasts, sessions>>
    /\ UNCHANGED <<calls, models_loaded, baselines, techniques, sample, again>>

\* a later call of the same operation with the same arguments
Repeat ==
    /\ op \in {"attribute", "explain"}
    /\ error = "none"
    /\ again = None
    /\ again' = IF op = "attribute"
                THEN <<map_to_techniques(features, top_k, baselines, techniques)>>
                ELSE <<explain_anomaly(features, top_k, baselines)>>
    /\ UNCHANGED <<attack, incidents, broadcasts, sessions>>
    /\ UNCHANGED <<calls, models_loaded, baselines, techniques, op, sample, features,
                   top_k, result, error>>

\* the caller takes the outcome
Return ==
    /\ op # "idle"
    /\ op' = "idle"
    /\ sample' = None
    /\ features' = None
    /\ top_k' = 0
    /\ result' = None
    /\ again' = None
    /\ error' = "none"
    /\ UNCHANGED <<attack, incidents, broadcasts, sessions>>
    /\ UNCHANGED <<calls, models_loaded, baselines, techniques>>

\* the multiplier technique matching computes for feature f of fv, and the
\* contribution_score explain_anomaly computes for it
Measure(fv, f, base) ==
    LET cs == Contributions(fv, base, Len(FEATURES))
        i  == CHOOSE j \in 1..Len(cs) : cs[j].contrib.feature = f
    IN  [feature |-> f,
         value |-> fv[f],
         multiplier |-> Multiplier(fv[f], base[f].mean),
         contribution_score |-> cs[i].score]

\* the multipliers a probed feature is raised to
RaiseMultiples == {5, 9, 10, 11, 30, 60, 400}

\* one feature of a vector is singled out and measured
Probe(fv, f) ==
    /\ op = "idle"
    /\ f \in DOMAIN fv
    /\ op' = "probe"
    /\ features' = fv
    /\ result' = Measure(fv, f, baselines)
    /\ UNCHANGED <<attack, incidents, broadcasts, sessions>>
    /\ UNCHANGED <<calls, models_loaded, baselines, techniques, sample, top_k, again,
                   error>>

\* the probed feature's value is increased, every other feature held fixed,
\* and measured again; again keeps the measurement before the increase
Raise(v) ==
    /\ op = "probe"
    /\ RLt(features[result.feature], v)
    /\ op' = "raised"
    /\ features' = [features EXCEPT ![result.feature] = v]
    /\ again' = result
    /\ result' = Measure([features EXCEPT ![result.feature] = v],
                         result.feature, baselines)
    /\ UNCHANGED <<attack, incidents, broadcasts, sessions>>
    /\ UNCHANGED <<calls, models_loaded, baselines, techniques, sample, top_k, error>>

Next ==
    \/ LoadModels
    \/ \E s \in Samples : Detect(s)
    \/ \E fv \in FeatureVectors, k \in TopKs : Attribute(fv, k)
    \/ \E fv \in FeatureVectors, k \in TopKs : Explain(fv, k)
    \/ Repeat
    \/ Return

Spec == Init /\ [][Next]_vars

\* the per-feature measurements under increases of one feature's value
RaiseTargets ==
    IF op = "probe"
    THEN {AtMultiple(result.feature, m) : m \in RaiseMultiples}
         \cup {BaselineMeans[result.feature]}
    ELSE {}

NextMono ==
    \/ \E fv \in FeatureVectors, f \in InputFeatures : Probe(fv, f)
    \/ \E v \in RaiseTargets : Raise(v)
    \/ Return

SpecMono == Init /\ [][NextMono]_vars

\* a registry whose n-th technique requires one more feature
WithRequirement(techs, n, r) ==
    [techs EXCEPT ![n].features = Append(techs[n].features, r)]

\* the technique registries a MITREMapper is constructed over: the shipped
\* one, and ones in which a technique requires a feature without a baseline
Registries ==
    {MITRE_TECHNIQUES}
    \cup {WithRequirement(MITRE_TECHNIQUES, n,
                          Req("gpu_usage", RInt(2), Rat(25, 100))) : n \in {1, 2}}

\* every feature the registry's techniques require has a baseline
ValidRegistry(techs, base) ==
    \A n \in 1..Len(techs) : \A i \in 1..Len(techs[n].features) :
        techs[n].features[i].feature \in DOMAIN base

\* feature vectors over cpu_usage and network_out, with and without a value
\* for the feature that has no baseline
ConfigVectors ==
    LET small == {fv \in FeatureVectors :
                     DOMAIN fv \subseteq {"cpu_usage", "network_out"}}
    IN  small \cup {Extended(fv, "gpu_usage", RInt(5)) : fv \in small}

\* before the mapper is constructed
InitConfig ==
    /\ models_loaded = FALSE
    /\ baselines = None
    /\ techniques = None
    /\ op = "new"
    /\ sample = None
    /\ features = None
    /\ top_k = 0
    /\ result = None
    /\ again = None
    /\ error = "none"
    /\ calls = [c \in Callers |-> NoCall]
    /\ attack = NoAttack
    /\ incidents = <<>>
    /\ broadcasts = <<>>
    /\ sessions = <<>>

\* MITREMapper.__init__ over a technique registry: both registries are
\* stored as they are, nothing is checked
MapperInit(reg) ==
    /\ op = "new"
    /\ op' = "idle"
    /\ techniques' = reg
    /\ baselines' = TelemetryBaselines
    /\ error' = "none"
    /\ UNCHANGED <<attack, incidents, broadcasts, sessions>>
    /\ UNCHANGED <<calls, models_loaded, sample, features, top_k, result, again>>

NextConfig ==
    \/ \E reg \in Registries : MapperInit(reg)
    \/ \E fv \in ConfigVectors, k \in TopKs : Attribute(fv, k)
    \/ Repeat
    \/ Return

SpecConfig == InitConfig /\ [][NextConfig]_vars

\* the scores detect averages for a sample
ScoresOf(s) ==
    <<s.ae, s.iforest, s.lof>> \o (IF s.lstm # None THEN <<s.lstm>> ELSE <<>>)

-----------------------------------------------------------------------------
(* Concurrent callers                                                      *)

\* the calls the concurrent callers make
ParVectors ==
    {[f \in {"failed_logins"} |-> RInt(15)],
     [f \in {"cpu_usage"} |-> RInt(85)],
     [f \in {"cpu_usage", "network_out", "failed_logins"} |-> AtMultiple(f, 30)],
     [f \in {"network_out", "disk_read"} |-> AtMultiple(f, 30)]}

ParTopKs == {1, 3}

ParSamples ==
    {[ae |-> Rat(3, 4), iforest |-> Rat(3, 4), lof |-> Rat(1, 2), lstm |-> None,
      apply_realism |-> TRUE],
     [ae |-> Rat(1, 2), iforest |-> Rat(1, 2), lof |-> Rat(1, 2),
      lstm |-> Rat(1, 4), apply_realism |-> TRUE],
     [ae |-> RInt(1), iforest |-> Rat(3, 4), lof |-> RInt(1), lstm |-> None,
      apply_realism |-> FALSE]}

ParCalls ==
    [kind : {"score"}, args : ParSamples]
    \cup [kind : {"attribute", "explain"},
          args : [features : ParVectors, top_k : ParTopKs]]

\* a caller enters detect, map_to_techniques or explain_anomaly; detect
\* raises at once when the models are not loaded
CallBegin(c, call) ==
    /\ op = "idle"
    /\ calls[c].pc = "idle"
    /\ calls' = [calls EXCEPT ![c] =
          IF call.kind = "score" /\ ~models_loaded
          THEN [kind |-> call.kind, pc |-> "done", args |-> call.args,
                local |-> None, draw |-> None, result |-> None,
                error |-> "RuntimeError"]
          ELSE [kind |-> call.kind, pc |-> "started", args |-> call.args,
                local |-> None, draw |-> None, result |-> None,
                error |-> "none"]]
    /\ UNCHANGED <<attack, incidents, broadcasts, sessions>>
    /\ UNCHANGED <<models_loaded, baselines, techniques, op, sample, features,
                   top_k, result, again, error>>

\* variant: the loop also stores the values it saw as the new baseline means
CallRead_adapts_baseline(c) ==
    /\ calls[c].pc = "started"
    /\ calls' = [calls EXCEPT ![c].pc = "computed",
                              ![c].local =
          CASE calls[c].kind = "attribute" ->
                  TechniqueScores(calls[c].args.features, baselines, techniques,
                                  Len(techniques))
            [] calls[c].kind = "explain" ->
                  RankedContributions(calls[c].args.features, baselines)
            [] calls[c].kind = "score" -> None]
    /\ baselines' =
          IF calls[c].kind = "score" THEN baselines
          ELSE [f \in DOMAIN baselines |->
                  IF f \in DOMAIN calls[c].args.features
                  THEN [mean |-> calls[c].args.features[f]]
                  ELSE baselines[f]]
    /\ UNCHANGED <<attack, incidents, broadcasts, sessions>>
    /\ UNCHANGED <<models_loaded, techniques, op, sample, features,
                   top_k, result, again, error>>

\* the call runs its loop into its local list, reading the registries:
\* technique_scores (mapper.py:39-53), contributions with their percentages
\* (explainer.py:37-72), scores_list and the raw verdict (detector.py:84-91)
CallRead(c) ==
    /\ calls[c].pc = "started"
    /\ calls' = [calls EXCEPT ![c].pc = "computed",
                              ![c].local =
          CASE calls[c].kind = "attribute" ->
                  TechniqueScores(calls[c].args.features, baselines, techniques,
                                  Len(techniques))
            [] calls[c].kind = "explain" ->
                  RankedContributions(calls[c].args.features, baselines)
            [] calls[c].kind = "score" ->
                  LET scores_list == ScoresOf(calls[c].args)
                  IN  [scores_list |-> scores_list,
                       ensemble_score |-> Mean(scores_list),
                       is_anomaly |-> RLt(ENSEMBLE_THRESHOLD, Mean(scores_list))]]
    /\ UNCHANGED <<attack, incidents, broadcasts, sessions>>
    /\ UNCHANGED <<models_loaded, baselines, techniques, op, sample, features,
                   top_k, result, again, error>>

\* the call finishes from its local list: sort and slice (mapper.py:56-59),
\* slice and explanation, which reads the disk_read baseline
\* (explainer.py:75-80), realism on the draw d and confidence
\* (detector.py:94-109)
CallFinish(c, d) ==
    /\ calls[c].pc = "computed"
    /\ LET call == calls[c]
           cut  == SlicePrefix(IF call.kind = "attribute"
                               THEN SortByScore(call.local) ELSE call.local,
                               call.args.top_k)
           top_contributions == [i \in 1..Len(cut) |-> cut[i].contrib]
       IN  calls' = [calls EXCEPT ![c].pc = "done",
                                 ![c].draw =
                                     IF call.kind = "score" THEN <<d>> ELSE None,
                                 ![c].result =
             CASE call.kind = "attribute" ->
                     [i \in 1..Len(cut) |-> cut[i].technique]
               [] call.kind = "explain" ->
                     [contributions |-> top_contributions,
                      explanation |->
                          _generate_explanation(top_contributions,
                                                call.args.features, baselines)]
               [] call.kind = "score" ->
                     [autoencoder_score |-> call.args.ae,
                      isolation_forest_score |-> call.args.iforest,
                      lof_score |-> call.args.lof,
                      lstm_score |-> call.args.lstm,
                      ensemble_score |-> call.local.ensemble_score,
                      is_anomaly |->
                          IF call.args.apply_realism
                          THEN _apply_realism(call.local.is_anomaly,
                                              call.local.ensemble_score, d)
                          ELSE call.local.is_anomaly,
                      confidence |->
                          _calculate_confidence(call.local.scores_list,
                                                call.local.ensemble_score)]]
    /\ UNCHANGED <<attack, incidents, broadcasts, sessions>>
    /\ UNCHANGED <<models_loaded, baselines, techniques, op, sample, features,
                   top_k, result, again, error>>

\* the caller takes the outcome of its call
CallTake(c) ==
    /\ calls[c].pc = "done"
    /\ calls' = [calls EXCEPT ![c] = NoCall]
    /\ UNCHANGED <<attack, incidents, broadcasts, sessions>>
    /\ UNCHANGED <<models_loaded, baselines, techniques, op, sample, features,
                   top_k, result, again, error>>

NextPar ==
    \/ LoadModels
    \/ \E c \in Callers, call \in ParCalls : CallBegin(c, call)
    \/ \E c \in Callers : CallRead(c)
    \/ \E c \in Callers, d \in Draws : CallFinish(c, d)
    \/ \E c \in Callers : CallTake(c)

SpecPar == Init /\ [][NextPar]_vars

-----------------------------------------------------------------------------
(* The detector's helper methods, called on their own                      *)

\* longest score list handed to _calculate_confidence from the grid
MaxScores == 3

\* ensemble scores around the bounds _apply_realism compares with
UnitScores == {Rat(n, 100) : n \in {0, 30, 40, 41, 55, 56, 74, 75, 90, 100}}

\* draws around the two rates
UnitDraws == {Rat(n, 100) : n \in {0, 7, 8, 10, 12, 50}}

\* five near-identical detector scores
NearIdenticalScores ==
    <<Rat(20, 100), Rat(25, 100), Rat(28, 100), Rat(30, 100), Rat(28, 100)>>

ScoreLists ==
    UNION {[1..n -> ScoreGrid] : n \in 1..MaxScores} \cup {NearIdenticalScores}

\* _apply_realism(is_anomaly, ensemble_score) with np.random.random() = d
ApplyRealism(a, e, d) ==
    /\ op = "idle"
    /\ op' = "realism"
    /\ sample' = [is_anomaly |-> a, ensemble_score |-> e, draw |-> d]
    /\ result' = [is_anomaly |-> _apply_realism(a, e, d)]
    /\ UNCHANGED <<attack, incidents, broadcasts, sessions>>
    /\ UNCHANGED <<calls, models_loaded, baselines, techniques, features, top_k,
                   again, error>>

\* _calculate_confidence(scores_list, np.mean(scores_list))
CalculateConfidence(sl) ==
    /\ op = "idle"
    /\ op' = "confidence"
    /\ sample' = [scores_list |-> sl, ensemble_score |-> Mean(sl)]
    /\ result' = [confidence |-> _calculate_confidence(sl, Mean(sl))]
    /\ UNCHANGED <<attack, incidents, broadcasts, sessions>>
    /\ UNCHANGED <<calls, models_loaded, baselines, techniques, features, top_k,
                   again, error>>

NextUnit ==
    \/ \E a \in BOOLEAN, e \in UnitScores, d \in UnitDraws : ApplyRealism(a, e, d)
    \/ \E sl \in ScoreLists : CalculateConfidence(sl)
    \/ Return

SpecUnit == Init /\ [][NextUnit]_vars

-----------------------------------------------------------------------------
(* The attack simulation of threat_detection_loop                          *)

\* points in one attack sequence (duration_seconds // 2 in the program)
MaxPoints == 3

\* attack sequences simulated in one run
MaxSequences == 2

\* identifiers get_next_incident_id may return: six hex digits of a uuid4,
\* so two calls may return the same one
IncidentIds == {"INC-0A1B2C", "INC-3D4E5F"}

\* a telemetry vector over all of settings.FEATURES: the features in raised
\* at multiple tenths/10 of their baseline, the others at their baseline
LoopVector(raised, tenths) ==
    [f \in FeatureNames |-> AtMultiple(f, IF f \in raised THEN tenths ELSE 10)]

\* what an attack point is evaluated to: its telemetry, the scores the
\* detectors give it and the value np.random.random() returns for it
LoopPoints ==
    {[features |-> LoopVector({}, 10),
      sample |-> [ae |-> Rat(1, 4), iforest |-> Rat(1, 4), lof |-> Rat(1, 4),
                  lstm |-> None, apply_realism |-> TRUE, draw |-> Rat(1, 2)]],
     [features |-> LoopVector({"failed_logins", "auth_attempts"}, 21),
      sample |-> [ae |-> Rat(3, 4), iforest |-> Rat(1, 2), lof |-> Rat(3, 4),
                  lstm |-> None, apply_realism |-> TRUE, draw |-> RInt(0)]],
     [features |-> LoopVector({"cpu_usage"}, 13),
      sample |-> [ae |-> Rat(1, 2), iforest |-> Rat(1, 2), lof |-> Rat(1, 2),
                  lstm |-> None, apply_realism |-> TRUE, draw |-> RInt(0)]],
     [features |-> LoopVector({"failed_logins", "auth_attempts"}, 60),
      sample |-> [ae |-> Rat(3, 4), iforest |-> RInt(1), lof |-> Rat(3, 4),
                  lstm |-> Rat(3, 4), apply_realism |-> TRUE,
                  draw |-> Rat(1, 2)]]}

\* generate_attack_sequence: the n-th sequence, its points stamped with
\* their position
AttackSequences(n) ==
    {[i \in 1..MaxPoints |->
        [timestamp |-> <<n, i>>, features |-> c[i].features,
         sample |-> c[i].sample]] : c \in [1..MaxPoints -> LoopPoints]}

\* detector.detect_single(telemetry) for a point of the sequence
detect_single(point) ==
    detect(point.sample.ae, point.sample.iforest, point.sample.lof,
           point.sample.lstm, TRUE, point.sample.draw)

\* the severity of the log entry broadcast for a point
LogSeverity(ensemble_score) ==
    IF RLe(Rat(8, 10), ensemble_score) THEN "critical"
    ELSE IF RLe(Rat(6, 10), ensemble_score) THEN "high"
    ELSE "warning"

\* the severity of the incident created for a point
IncidentSeverity(ensemble_score) ==
    IF RLe(Rat(80, 100), ensemble_score) THEN "critical"
    ELSE IF RLe(Rat(70, 100), ensemble_score) THEN "high"
    ELSE IF RLe(Rat(55, 100), ensemble_score) THEN "medium"
    ELSE "low"

\* the log message broadcast for every point of an attack sequence
LogEntry(point, anomaly_score) ==
    [id |-> "log-attack", timestamp |-> point.timestamp,
     severity |-> LogSeverity(anomaly_score.ensemble_score), data |-> point]

\* the Incident built for an anomalous point
NewIncident(id, point, anomaly_score) ==
    LET explained == explain_anomaly(point.features, 7, baselines)
    IN  [id |-> id,
         timestamp |-> point.timestamp,
         severity |-> IncidentSeverity(anomaly_score.ensemble_score),
         status |-> "open",
         anomaly_scores |-> anomaly_score,
         mitre_techniques |->
             map_to_techniques(point.features, 3, baselines, techniques),
         feature_contributions |-> explained.contributions,
         explanation |-> explained.explanation,
         telemetry_snapshot |-> point]

\* the alert message broadcast after an incident is stored
AlertEntry(incident) ==
    [type |-> "alert", incident_id |-> incident.id,
     severity |-> incident.severity, timestamp |-> incident.timestamp]

\* DataStore.add_incident: self.incidents[incident.id] = incident
add_incident(store, incident) ==
    [id \in DOMAIN store \cup {incident.id} |->
        IF id = incident.id THEN incident ELSE store[id]]

\* the loop after load_models succeeded, before the first attack sequence
InitLoop ==
    /\ models_loaded = TRUE
    /\ baselines = TelemetryBaselines
    /\ techniques = MITRE_TECHNIQUES
    /\ op = "idle"
    /\ sample = None
    /\ features = None
    /\ top_k = 0
    /\ result = None
    /\ again = None
    /\ error = "none"
    /\ calls = [c \in Callers |-> NoCall]
    /\ attack = NoAttack
    /\ incidents = <<>>
    /\ broadcasts = <<>>
    /\ sessions = <<>>

\* should_attack: a new attack sequence is generated
AttackBegin(sequence) ==
    /\ attack.pc = "idle"
    /\ attack.n < MaxSequences
    /\ sequence \in AttackSequences(attack.n + 1)
    /\ attack' = [pc |-> "running", n |-> attack.n + 1,
                  sequence |-> sequence, i |-> 1]
    /\ UNCHANGED <<incidents, broadcasts, sessions>>
    /\ UNCHANGED <<calls, models_loaded, baselines, techniques, op, sample,
                   features, top_k, result, again, error>>

\* variant: the loop goes on to the next point after an incident
AttackPoint_no_break(id) ==
    /\ attack.pc = "running"
    /\ LET point == attack.sequence[attack.i]
           anomaly_score == detect_single(point)
           incident == NewIncident(id, point, anomaly_score)
       IN  /\ broadcasts' =
                 IF anomaly_score.is_anomaly
                 THEN broadcasts \o <<LogEntry(point, anomaly_score),
                                      AlertEntry(incident)>>
                 ELSE Append(broadcasts, LogEntry(point, anomaly_score))
           /\ incidents' = IF anomaly_score.is_anomaly
                           THEN add_incident(incidents, incident)
                           ELSE incidents
           /\ attack' = IF attack.i = Len(attack.sequence)
                        THEN [attack EXCEPT !.pc = "idle"]
                        ELSE [attack EXCEPT !.i = @ + 1]
    /\ UNCHANGED sessions
    /\ UNCHANGED <<calls, models_loaded, baselines, techniques, op, sample,
                   features, top_k, result, again, error>>

\* one iteration of `for point in attack_sequence`: the point is evaluated
\* and logged; an anomalous point becomes an incident under the identifier
\* id, is alerted, and ends the sequence
AttackPoint(id) ==
    /\ attack.pc = "running"
    /\ LET point == attack.sequence[attack.i]
           anomaly_score == detect_single(point)
           incident == NewIncident(id, point, anomaly_score)
       IN  /\ broadcasts' =
                 IF anomaly_score.is_anomaly
                 THEN broadcasts \o <<LogEntry(point, anomaly_score),
                                      AlertEntry(incident)>>
                 ELSE Append(broadcasts, LogEntry(point, anomaly_score))
           /\ incidents' = IF anomaly_score.is_anomaly
                           THEN add_incident(incidents, incident)
                           ELSE incidents
           /\ attack' = IF anomaly_score.is_anomaly
                           \/ attack.i = Len(attack.sequence)
                        THEN [attack EXCEPT !.pc = "idle"]
                        ELSE [attack EXCEPT !.i = @ + 1]
    /\ UNCHANGED sessions
    /\ UNCHANGED <<calls, models_loaded, baselines, techniques, op, sample,
                   features, top_k, result, again, error>>

NextLoop ==
    \/ \E sequence \in AttackSequences(attack.n + 1) : AttackBegin(sequence)
    \/ \E id \in IncidentIds : AttackPoint(id)

SpecLoop == InitLoop /\ [][NextLoop]_vars

-----------------------------------------------------------------------------
(* PlaybookManager                                                          *)

PENDING == "pending"

IN_PROGRESS == "in_progress"

COMPLETED == "completed"

SKIPPED == "skipped"

PlaybookStepStatus == {PENDING, IN_PROGRESS, COMPLETED, SKIPPED}

\* an automationHook of None; `not step.automationHook` holds for it
NoHook == ""

\* the steps s1, s2, ... of a playbook, given their automation hooks
mk_steps(hooks) ==
    [i \in 1..Len(hooks) |->
        [id |-> <<"s1", "s2", "s3", "s4", "s5", "s6", "s7", "s8">>[i],
         order |-> i, automationHook |-> hooks[i]]]

\* _load_library: the playbooks, in library order
Playbooks ==
    <<[id |-> "PB-PHISH-01",
       steps |-> mk_steps(<<NoHook, "extractIOCs", "checkReputation",
                            "blockSender", "purgeEmail", NoHook, NoHook>>)],
      [id |-> "PB-RANSOM-02",
       steps |-> mk_steps(<<"isolateEndpoint", "snapshotSystem", NoHook,
                            "blockPropagation", NoHook, "killProcess",
                            "resetCredentials", NoHook>>)],
      [id |-> "PB-AUTH-03",
       steps |-> mk_steps(<<NoHook, "geoCheck", "disableUser",
                            "revokeSessions", NoHook, "analyzeIP">>)],
      [id |-> "PB-DATA-04",
       steps |-> mk_steps(<<NoHook, "searchLogs", "blockTransfer",
                            "suspendTokens", NoHook, NoHook>>)],
      [id |-> "PB-MAL-05",
       steps |-> mk_steps(<<"collectSample", "detonateSample", NoHook>>)],
      [id |-> "PB-DDOS-06",
       steps |-> mk_steps(<<"analyzeTraffic", "enableUnderAttackMode", NoHook>>)],
      [id |-> "PB-INSIDE-07",
       steps |-> mk_steps(<<"pullUserLogs", NoHook, NoHook>>)],
      [id |-> "PB-SQLI-08",
       steps |-> mk_steps(<<"blockIP", NoHook, NoHook>>)],
      [id |-> "PB-SUPPLY-09",
       steps |-> mk_steps(<<"inventoryScan", NoHook, NoHook>>)],
      [id |-> "PB-CRYPTO-10",
       steps |-> mk_steps(<<"killProcess", "updateFirewall", NoHook>>)],
      [id |-> "PB-ATO-11",
       steps |-> mk_steps(<<"revokeSessions", "resetMFA", NoHook>>)]>>

\* the position of the first element of ids that equals id, 0 if none
FirstIndex(ids, id) ==
    IF \E k \in 1..Len(ids) : ids[k] = id
    THEN CHOOSE k \in 1..Len(ids) :
            /\ ids[k] = id
            /\ \A l \in 1..(k - 1) : ids[l] # id
    ELSE 0

\* get_playbook: the position of the playbook in the library, 0 for None
get_playbook(playbook_id) ==
    FirstIndex([k \in 1..Len(Playbooks) |-> Playbooks[k].id], playbook_id)

\* self.sessions.get(session_id): the position of the session, 0 for None
get_session(ss, session_id) ==
    FirstIndex([k \in 1..Len(ss) |-> ss[k].session_id], session_id)

\* d[key] = value on a dict
DictSet(d, key, value) ==
    [k \in DOMAIN d \cup {key} |-> IF k = key THEN value ELSE d[k]]

\* variant: no step is started
NewSession_all_pending(session_id, incident_id, playbook_id) ==
    LET pb == Playbooks[get_playbook(playbook_id)]
    IN  [session_id |-> session_id,
         playbook_id |-> playbook_id,
         incident_id |-> incident_id,
         current_step_index |-> 0,
         step_statuses |->
             [id \in {pb.steps[i].id : i \in 1..Len(pb.steps)} |-> PENDING],
         step_notes |-> <<>>,
         completed |-> FALSE]

\* the PlaybookSession start_session builds under the identifier session_id
NewSession(session_id, incident_id, playbook_id) ==
    LET pb == Playbooks[get_playbook(playbook_id)]
        statuses == [id \in {pb.steps[i].id : i \in 1..Len(pb.steps)} |->
                        IF pb.steps # <<>> /\ id = pb.steps[1].id
                        THEN IN_PROGRESS ELSE PENDING]
    IN  [session_id |-> session_id,
         playbook_id |-> playbook_id,
         incident_id |-> incident_id,
         current_step_index |-> 0,
         step_statuses |-> statuses,
         step_notes |-> <<>>,
         completed |-> FALSE]

\* variant: the session is marked completed whichever step was finished
update_step_completes_anywhere(session, step_id, status, notes) ==
    LET statuses == DictSet(session.step_statuses, step_id, status)
        written  == [session EXCEPT
                        !.step_statuses = statuses,
                        !.step_notes = IF notes # ""
                                       THEN DictSet(@, step_id, notes) ELSE @]
        pb       == get_playbook(session.playbook_id)
        step_ids == [i \in 1..Len(Playbooks[pb].steps) |->
                        Playbooks[pb].steps[i].id]
        curr_idx == FirstIndex(step_ids, step_id) - 1
    IN  IF status \in {COMPLETED, SKIPPED} /\ pb # 0 /\ curr_idx >= 0
        THEN IF curr_idx + 1 < Len(step_ids)
             THEN [written EXCEPT
                     !.current_step_index = curr_idx + 1,
                     !.completed = TRUE,
                     !.step_statuses =
                         DictSet(statuses, step_ids[curr_idx + 2], IN_PROGRESS)]
             ELSE [written EXCEPT !.completed = TRUE]
        ELSE written

\* variant: the next step is started only when it is still pending
update_step_keeps_started(session, step_id, status, notes) ==
    LET statuses == DictSet(session.step_statuses, step_id, status)
        written  == [session EXCEPT
                        !.step_statuses = statuses,
                        !.step_notes = IF notes # ""
                                       THEN DictSet(@, step_id, notes) ELSE @]
        pb       == get_playbook(session.playbook_id)
        step_ids == [i \in 1..Len(Playbooks[pb].steps) |->
                        Playbooks[pb].steps[i].id]
        curr_idx == FirstIndex(step_ids, step_id) - 1
    IN  IF status \in {COMPLETED, SKIPPED} /\ pb # 0 /\ curr_idx >= 0
        THEN IF curr_idx + 1 < Len(step_ids)
             THEN [written EXCEPT
                     !.current_step_index = curr_idx + 1,
                     !.step_statuses =
                         IF statuses[step_ids[curr_idx + 2]] = PENDING
                         THEN DictSet(statuses, step_ids[curr_idx + 2],
                                      IN_PROGRESS)
                         ELSE statuses]
             ELSE [written EXCEPT !.completed = TRUE]
        ELSE written

\* update_step on the session it found: the status and the note are
\* written; a completed or skipped step of the playbook starts the next step,
\* or completes the session when it is the last one (curr_idx is 0-based)
update_step(session, step_id, status, notes) ==
    LET statuses == DictSet(session.step_statuses, step_id, status)
        written  == [session EXCEPT
                        !.step_statuses = statuses,
                        !.step_notes = IF notes # ""
                                       THEN DictSet(@, step_id, notes) ELSE @]
        pb       == get_playbook(session.playbook_id)
        step_ids == [i \in 1..Len(Playbooks[pb].steps) |->
                        Playbooks[pb].steps[i].id]
        curr_idx == FirstIndex(step_ids, step_id) - 1
    IN  IF status \in {COMPLETED, SKIPPED} /\ pb # 0 /\ curr_idx >= 0
        THEN IF curr_idx + 1 < Len(step_ids)
             THEN [written EXCEPT
                     !.current_step_index = curr_idx + 1,
                     !.step_statuses =
                         DictSet(statuses, step_ids[curr_idx + 2], IN_PROGRESS)]
             ELSE [written EXCEPT !.completed = TRUE]
        ELSE written

\* next(s for s in reversed(sessions) if s.incident_id == incident_id and
\* not s.completed): the position of the session, 0 for None
get_session_by_incident(ss, incident_id) ==
    IF \E k \in 1..Len(ss) :
          ss[k].incident_id = incident_id /\ ~ss[k].completed
    THEN CHOOSE k \in 1..Len(ss) :
            /\ ss[k].incident_id = incident_id /\ ~ss[k].completed
            /\ \A l \in (k + 1)..Len(ss) :
                  ~(ss[l].incident_id = incident_id /\ ~ss[l].completed)
    ELSE 0

\* sessions one run may start
MaxSessions == 2

\* session identifiers are uuid4 strings in the program, always fresh; here
\* the n-th session started has identifier n

IncidentInputs == {"INC-0A1B2C", "INC-3D4E5F"}

\* start_session calls: a playbook of three steps, one whose last step has an
\* automation hook, and an identifier that is in no playbook
StartInputs ==
    [incident_id : {"INC-0A1B2C"},
     playbook_id : {"PB-INSIDE-07", "PB-AUTH-03", "PB-UA-03"}]
    \cup [incident_id : {"INC-3D4E5F"}, playbook_id : {"PB-AUTH-03"}]

\* update_step calls: on the first session every status on its first two
\* steps and on s6 (the last step of PB-AUTH-03, no step of PB-INSIDE-07),
\* one of them with a note; on the second session and on a session
\* identifier that is never issued, a few
UpdateInputs ==
    [session_id : {1}, step_id : {"s1", "s2"}, status : PlaybookStepStatus,
     notes : {""}]
    \cup [session_id : {1}, step_id : {"s6"},
          status : {PENDING, COMPLETED, SKIPPED}, notes : {""}]
    \cup [session_id : {2}, step_id : {"s1", "s6"},
          status : {COMPLETED}, notes : {"", "checked"}]
    \cup [session_id : {MaxSessions + 1}, step_id : {"s1"},
          status : {COMPLETED}, notes : {""}]

\* execute_automation calls
ExecuteInputs ==
    [session_id : {1}, step_id : {"s1", "s2", "s6"}]
    \cup [session_id : {2, MaxSessions + 1}, step_id : {"s1"}]

\* the manager after construction
InitPlaybook ==
    /\ models_loaded = FALSE
    /\ baselines = TelemetryBaselines
    /\ techniques = MITRE_TECHNIQUES
    /\ op = "idle"
    /\ sample = None
    /\ features = None
    /\ top_k = 0
    /\ result = None
    /\ again = None
    /\ error = "none"
    /\ calls = [c \in Callers |-> NoCall]
    /\ attack = NoAttack
    /\ incidents = <<>>
    /\ broadcasts = <<>>
    /\ sessions = <<>>

\* start_session(incident_id, playbook_id)
StartSession(incident_id, playbook_id) ==
    /\ op = "idle"
    /\ op' = "start_session"
    /\ sample' = [incident_id |-> incident_id, playbook_id |-> playbook_id]
    /\ IF get_playbook(playbook_id) = 0
       THEN /\ error' = "ValueError"
            /\ result' = None
            /\ sessions' = sessions
       ELSE /\ Len(sessions) < MaxSessions
            /\ error' = "none"
            /\ result' = NewSession(Len(sessions) + 1, incident_id, playbook_id)
            /\ sessions' = Append(sessions, result')
    /\ UNCHANGED <<attack, incidents, broadcasts>>
    /\ UNCHANGED <<calls, models_loaded, baselines, techniques, features, top_k,
                   again>>

\* update_step(session_id, step_id, status, notes)
UpdateStep(session_id, step_id, status, notes) ==
    /\ op = "idle"
    /\ op' = "update_step"
    /\ sample' = [session_id |-> session_id, step_id |-> step_id,
                  status |-> status, notes |-> notes]
    /\ LET k == get_session(sessions, session_id)
       IN  IF k = 0
           THEN /\ error' = "ValueError"
                /\ result' = None
                /\ sessions' = sessions
           ELSE /\ error' = "none"
                /\ result' = update_step(sessions[k], step_id, status, notes)
                /\ sessions' = [sessions EXCEPT ![k] = result']
    /\ UNCHANGED <<attack, incidents, broadcasts>>
    /\ UNCHANGED <<calls, models_loaded, baselines, techniques, features, top_k,
                   again>>

\* variant: a step without an automation hook is executed all the same
ExecuteAutomation_without_hook_check(session_id, step_id) ==
    /\ op = "idle"
    /\ op' = "execute_automation"
    /\ sample' = [session_id |-> session_id, step_id |-> step_id]
    /\ LET k == get_session(sessions, session_id)
       IN  IF k = 0
           THEN /\ error' = "ValueError"
                /\ result' = None
                /\ sessions' = sessions
           ELSE LET pb == Playbooks[get_playbook(sessions[k].playbook_id)]
                    step == FirstIndex([i \in 1..Len(pb.steps) |->
                                            pb.steps[i].id], step_id)
                IN  /\ error' = "none"
                    /\ IF step = 0
                       THEN /\ result' = [status |-> "failed",
                                          message |-> "No automation hook"]
                            /\ sessions' = sessions
                       ELSE /\ result' = [status |-> "success",
                                          action |-> pb.steps[step].automationHook]
                            /\ sessions' =
                                 [sessions EXCEPT ![k] =
                                     update_step(sessions[k], step_id, COMPLETED,
                                         "Automated execution successful")]
    /\ UNCHANGED <<attack, incidents, broadcasts>>
    /\ UNCHANGED <<calls, models_loaded, baselines, techniques, features, top_k,
                   again>>

\* execute_automation(session_id, step_id)
ExecuteAutomation(session_id, step_id) ==
    /\ op = "idle"
    /\ op' = "execute_automation"
    /\ sample' = [session_id |-> session_id, step_id |-> step_id]
    /\ LET k == get_session(sessions, session_id)
       IN  IF k = 0
           THEN /\ error' = "ValueError"
                /\ result' = None
                /\ sessions' = sessions
           ELSE LET pb == Playbooks[get_playbook(sessions[k].playbook_id)]
                    step == FirstIndex([i \in 1..Len(pb.steps) |->
                                            pb.steps[i].id], step_id)
                IN  /\ error' = "none"
                    /\ IF step = 0 \/ pb.steps[step].automationHook = NoHook
                       THEN /\ result' = [status |-> "failed",
                                          message |-> "No automation hook"]
                            /\ sessions' = sessions
                       ELSE /\ result' = [status |-> "success",
                                          action |-> pb.steps[step].automationHook]
                            /\ sessions' =
                                 [sessions EXCEPT ![k] =
                                     update_step(sessions[k], step_id, COMPLETED,
                                         "Automated execution successful")]
    /\ UNCHANGED <<attack, incidents, broadcasts>>
    /\ UNCHANGED <<calls, models_loaded, baselines, techniques, features, top_k,
                   again>>

\* get_session_by_incident(incident_id)
GetSessionByIncident(incident_id) ==
    /\ op = "idle"
    /\ op' = "get_session_by_incident"
    /\ sample' = [incident_id |-> incident_id]
    /\ error' = "none"
    /\ LET k == get_session_by_incident(sessions, incident_id)
       IN  result' = IF k = 0 THEN None ELSE sessions[k]
    /\ UNCHANGED <<attack, incidents, broadcasts, sessions>>
    /\ UNCHANGED <<calls, models_loaded, baselines, techniques, features, top_k,
                   again>>

NextPlaybook ==
    \/ \E c \in StartInputs : StartSession(c.incident_id, c.playbook_id)
    \/ \E c \in UpdateInputs :
          UpdateStep(c.session_id, c.step_id, c.status, c.notes)
    \/ \E c \in ExecuteInputs : ExecuteAutomation(c.session_id, c.step_id)
    \/ \E incident_id \in IncidentInputs : GetSessionByIncident(incident_id)
    \/ Return

SpecPlaybook == InitPlaybook /\ [][NextPlaybook]_vars

-----------------------------------------------------------------------------
(* Properties                                                              *)

Called(o) == op = o /\ error = "none"

\* C1: every verdict detect returns has ensemble_score in [0, 1] and
\* confidence in [0.65, 0.95], whatever the variance of the scores and
\* whether or not the extreme-score boost applies.
C1_VerdictBounds ==
    Called("detect") =>
        /\ RLe(RInt(0), result.ensemble_score)
        /\ RLe(result.ensemble_score, RInt(1))
        /\ RLe(Rat(65, 100), result.confidence)
        /\ RLe(result.confidence, Rat(95, 100))

\* a verdict with disagreeing detectors whose boosted confidence is cut to 0.95
C1_Witness ==
    /\ Called("detect")
    /\ RLt(Rat(8, 10), result.ensemble_score)
    /\ result.autoencoder_score # result.lof_score
    /\ result.confidence = Rat(95, 100)

TechIndex(id) == CHOOSE i \in 1..Len(techniques) : techniques[i].id = id

ReturnedIds == {result[i].technique_id : i \in 1..Len(result)}

\* C3: every technique match map_to_techniques returns has a score strictly
\* above 0.3 and at most 0.95, and a technique whose computed score is 0.3 or
\* less is never returned.
C3_FloorAndCap ==
    Called("attribute") =>
        /\ \A i \in 1..Len(result) :
              /\ RLt(Rat(3, 10), result[i].confidence)
              /\ RLe(result[i].confidence, Rat(95, 100))
        /\ \A n \in 1..Len(techniques) :
              RLe(_score_technique(features, baselines, techniques[n]).score,
                  Rat(3, 10))
                  => techniques[n].id \notin ReturnedIds

\* a call where one technique scores exactly 0.3 and another reaches the cap
C3_Witness ==
    /\ Called("attribute")
    /\ \E n \in 1..Len(techniques) :
          _score_technique(features, baselines, techniques[n]).score = Rat(3, 10)
    /\ \E i \in 1..Len(result) : result[i].confidence = Rat(95, 100)

PercentsOf(contributions) ==
    [i \in 1..Len(contributions) |-> contributions[i].contrib.contribution_percent]

CpuScenario == [f \in {"cpu_usage"} |-> RInt(85)]

\* C6: whenever some contribution_score is nonzero, the contribution_percent
\* values of all computed contributions (before truncation to top_k) sum to
\* 100, the returned list being the first top_k of them; cpu_usage = 85 alone
\* (mean 25) has deviation 60 and contribution_percent 100.
C6_PercentsSumTo100 ==
    Called("explain") =>
        LET ranked == RankedContributions(features, baselines)
        IN  /\ (\E i \in 1..Len(ranked) : ranked[i].score # RInt(0))
                  => RSum(PercentsOf(ranked)) = RInt(100)
            /\ \A i \in 1..Len(result.contributions) :
                  result.contributions[i] = ranked[i].contrib
            /\ (features = CpuScenario /\ top_k >= 1)
                  => /\ result.contributions[1].deviation = RInt(60)
                     /\ result.contributions[1].contribution_percent = RInt(100)

\* four features with nonzero scores, of which top_k < 4 are returned
C6_Witness ==
    /\ Called("explain")
    /\ top_k >= 1
    /\ LET ranked == RankedContributions(features, baselines)
       IN  /\ Len(ranked) = 4
           /\ top_k < Len(ranked)
           /\ \A i \in 1..Len(ranked) : ranked[i].score # RInt(0)

\* every present feature's multiplier + 0.1 is exactly 1
AllAtZeroPoint ==
    \A f \in DOMAIN features \cap FeatureNames :
        RAdd(Multiplier(features[f], baselines[f].mean), Rat(1, 10)) = RInt(1)

\* every present feature's value is its baseline mean
AllAtBaseline ==
    \A f \in DOMAIN features \cap FeatureNames :
        features[f] = baselines[f].mean

\* C7 (as amended): when every present feature's contribution_score is 0,
\* that is its multiplier + 0.1 is exactly 1 (a value at 0.9 times
\* mean + 0.001, not at the mean), every contribution_percent is 0.
C7_ZeroScoresZeroPercent ==
    (Called("explain") /\ AllAtZeroPoint) =>
        /\ \A i \in 1..Len(result.contributions) :
              result.contributions[i].contribution_percent = RInt(0)
        /\ LET ranked == RankedContributions(features, baselines)
           IN  \A i \in 1..Len(ranked) :
                  ranked[i].contrib.contribution_percent = RInt(0)

\* several features, all at the zero point, were explained
C7_Witness ==
    /\ Called("explain")
    /\ AllAtZeroPoint
    /\ Len(result.contributions) >= 2

\* C7 (as stated): when every present feature's value equals its baseline
\* mean, every contribution_percent is 0.
C7_Original ==
    (Called("explain") /\ AllAtBaseline) =>
        \A i \in 1..Len(result.contributions) :
            result.contributions[i].contribution_percent = RInt(0)

\* C8 (as amended): increasing one feature's value, the others held fixed,
\* never decreases its technique-matching multiplier; it never decreases its
\* contribution_score when the smaller value already has multiplier + 0.1 >= 1,
\* and never increases it when the larger value still has
\* multiplier + 0.1 <= 1.
C8_MonotoneFromZeroPoint ==
    op = "raised" =>
        /\ RLe(again.multiplier, result.multiplier)
        /\ RLe(RInt(1), RAdd(again.multiplier, Rat(1, 10)))
              => RLe(again.contribution_score, result.contribution_score)
        /\ RLe(RAdd(result.multiplier, Rat(1, 10)), RInt(1))
              => RLe(result.contribution_score, again.contribution_score)

\* a value above the zero point was raised and its contribution_score grew,
\* with another feature present
C8_Witness ==
    /\ op = "raised"
    /\ Cardinality(DOMAIN features) >= 2
    /\ RLe(RInt(1), RAdd(again.multiplier, Rat(1, 10)))
    /\ RLt(again.contribution_score, result.contribution_score)

\* C8 (as stated): increasing one feature's value never decreases its
\* contribution_score nor its technique-matching multiplier.
C8_Original ==
    op = "raised" =>
        /\ RLe(again.contribution_score, result.contribution_score)
        /\ RLe(again.multiplier, result.multiplier)

\* a comes before b in map_to_techniques' order: higher score first, equal
\* scores in registry order
Precedes(sa, ia, sb, ib) == RLt(sb, sa) \/ (sa = sb /\ ia < ib)

\* C9: map_to_techniques returns the matches that pass the floor sorted by
\* score descending, equal scores in the order the registry declares their
\* techniques, cut to the first top_k.
C9_SortedStableTopK ==
    Called("attribute") =>
        LET all == TechniqueScores(features, baselines, techniques,
                                   Len(techniques))
        IN  /\ Len(result) = (IF top_k < Len(all) THEN top_k ELSE Len(all))
            /\ \A i, j \in 1..Len(result) :
                  i < j => Precedes(result[i].confidence,
                                    TechIndex(result[i].technique_id),
                                    result[j].confidence,
                                    TechIndex(result[j].technique_id))
            /\ \A i \in 1..Len(result) :
                  \E n \in 1..Len(all) : all[n].technique = result[i]
            /\ \A n \in 1..Len(all) :
                  all[n].technique.technique_id \notin ReturnedIds
                      => \A i \in 1..Len(result) :
                            Precedes(result[i].confidence,
                                     TechIndex(result[i].technique_id),
                                     all[n].score,
                                     TechIndex(all[n].technique.technique_id))

\* three matches returned of more: a strict descent, then a tie
C9_Witness ==
    /\ Called("attribute")
    /\ Len(result) = 3
    /\ RLt(result[2].confidence, result[1].confidence)
    /\ result[2].confidence = result[3].confidence
    /\ Len(TechniqueScores(features, baselines, techniques, Len(techniques))) > 3

BruteForceScenario == [f \in {"failed_logins"} |-> RInt(15)]

\* C10: for failed_logins = 15 alone (mean 0.5), T1110 Brute Force matches on
\* failed_logins with score 1.0 before the bonus, bonus 0.05 and final score
\* 0.95, and is the first match map_to_techniques returns.
C10_BruteForceFirst ==
    (Called("attribute") /\ features = BruteForceScenario /\ top_k >= 1) =>
        LET t == techniques[1]
            m == MatchLoop(features, baselines, t.features, Len(t.features))
        IN  /\ t.id = "T1110"
            /\ t.features[1] = Req("failed_logins", RInt(3), Rat(35, 100))
            /\ m.matched_features = <<"failed_logins">>
            /\ RDiv(m.weighted_score, m.total_weight) = RInt(1)
            /\ MatchBonus(m.matched_features) = Rat(5, 100)
            /\ _score_technique(features, baselines, t).score = Rat(95, 100)
            /\ result[1].technique_id = "T1110"
            /\ result[1].confidence = Rat(95, 100)
            /\ result[1].matched_features = <<"failed_logins">>

\* the scenario was attributed with top_k = 3
C10_Witness ==
    /\ Called("attribute")
    /\ features = BruteForceScenario
    /\ top_k = 3
    /\ Len(result) = 3

\* C11: map_to_techniques and explain_anomaly raise no exception for any
\* feature vector over the fixed feature names with non-negative values and
\* any top_k; when no technique passes, map_to_techniques returns the empty
\* list; a feature missing from the vector is skipped; when no contribution
\* is returned the explanation is the fixed text; when the contribution total
\* is zero every percentage is 0; equal detector scores (variance zero) give
\* a defined confidence.
C11_NeverRaises ==
    /\ op \in {"attribute", "explain"} => error = "none"
    /\ Called("attribute") =>
          /\ result \in Seq([technique_id : STRING, name : STRING,
                              tactic : STRING, confidence : Int \X Int,
                              matched_features : Seq(STRING)])
          /\ (\A n \in 1..Len(techniques) :
                 ~AboveFloor(_score_technique(features, baselines,
                                              techniques[n]).score))
                => result = <<>>
          /\ \A i \in 1..Len(result) :
                \A j \in 1..Len(result[i].matched_features) :
                    result[i].matched_features[j] \in DOMAIN features
    /\ Called("explain") =>
          /\ \A i \in 1..Len(result.contributions) :
                result.contributions[i].feature \in DOMAIN features
          /\ result.contributions = <<>>
                => result.explanation =
                      [header |-> NoDeviations, lines |-> <<>>, context |-> <<>>]
          /\ TotalScore(RankedContributions(features, baselines)) = RInt(0)
                => \A i \in 1..Len(result.contributions) :
                      result.contributions[i].contribution_percent = RInt(0)
    /\ (Called("detect") /\ Var(ScoresOf(sample)) = RInt(0)) =>
          result.confidence = Rat(95, 100)

\* a vector that lacks most features and deviates in none is attributed:
\* nothing matches
C11_Witness ==
    /\ Called("attribute")
    /\ DOMAIN features = {"cpu_usage", "failed_logins"}
    /\ result = <<>>

\* C12 (as stated): a technique registry that requires a feature without a
\* baseline is reported as ConfigurationError when the mapper is constructed,
\* so that no evaluation is made over it, and map_to_techniques raises no
\* exception.
C12_Original ==
    /\ (op # "new" /\ ~ValidRegistry(techniques, baselines))
          => (op = "idle" /\ error = "ConfigurationError")
    /\ op = "attribute" => error = "none"

\* the entries of the call's feature vector under the fixed feature names
KnownFeatures == [f \in DOMAIN features \cap FeatureNames |-> features[f]]

\* C13: the results of map_to_techniques and explain_anomaly depend only on
\* the entries under the fixed feature names (they equal the results for the
\* vector without its other keys); a feature absent from the vector gets no
\* contribution, is never a matched feature and triggers no hint, it is not
\* evaluated as the value 0.
C13_OnlyKnownKeys ==
    /\ Called("attribute") =>
          /\ result = map_to_techniques(KnownFeatures, top_k, baselines,
                                        techniques)
          /\ \A n \in 1..Len(techniques) :
                LET st == _score_technique(features, baselines, techniques[n])
                IN  \A j \in 1..Len(st.matched_features) :
                       st.matched_features[j] \in DOMAIN features
    /\ Called("explain") =>
          /\ result = explain_anomaly(KnownFeatures, top_k, baselines)
          /\ LET ranked == RankedContributions(features, baselines)
             IN  /\ {ranked[i].contrib.feature : i \in 1..Len(ranked)}
                       = DOMAIN features \cap FeatureNames
                 /\ Len(ranked) = Cardinality(DOMAIN features \cap FeatureNames)
          /\ (\E i \in 1..Len(result.explanation.context) :
                  result.explanation.context[i] = HintExfiltration)
                => "disk_read" \in DOMAIN features

\* a vector with a hostname and two of the twelve features was explained
C13_Witness ==
    /\ Called("explain")
    /\ "hostname" \in DOMAIN features
    /\ Cardinality(DOMAIN features \cap FeatureNames) = 2
    /\ Len(result.contributions) = 2

\* what a finished call returns when it runs alone over the registries
AloneResult(call) ==
    CASE call.kind = "attribute" ->
            map_to_techniques(call.args.features, call.args.top_k,
                              TelemetryBaselines, MITRE_TECHNIQUES)
      [] call.kind = "explain" ->
            explain_anomaly(call.args.features, call.args.top_k,
                            TelemetryBaselines)
      [] call.kind = "score" ->
            detect(call.args.ae, call.args.iforest, call.args.lof,
                   call.args.lstm, call.args.apply_realism, call.draw[1])

C15_RealismTwoCases ==
    op = "realism" =>
        LET raw  == sample.is_anomaly
            e    == sample.ensemble_score
            d    == sample.draw
            toTrue  == ~raw /\ d[1] * 100 < 8 * d[2] /\ e[1] * 10 > 4 * e[2]
            toFalse == raw /\ d[1] * 100 < 12 * d[2] /\ e[1] * 100 < 75 * e[2]
        IN  /\ toTrue => result.is_anomaly = TRUE
            /\ toFalse => result.is_anomaly = FALSE
            /\ (result.is_anomaly # raw) <=> (toTrue \/ toFalse)

\* a raw anomaly with a draw between the two rates is turned into a miss
C15_Witness ==
    /\ op = "realism"
    /\ sample.is_anomaly
    /\ sample.draw = Rat(10, 100)
    /\ sample.ensemble_score = Rat(74, 100)
    /\ result.is_anomaly = FALSE

\* C17: confidence is 1 / (1 + 5 * variance), times 1.1 when ensemble_score
\* > 0.8 or < 0.2, and only then clamped to [0.65, 0.95]; a single score
\* (variance 0) and the scores 0.2, 0.25, 0.28, 0.3, 0.28 (mean 0.262,
\* variance 0.001216) both give exactly 0.95, and no list gives 1.0.
C17_ConfidenceFormula ==
    op = "confidence" =>
        LET sl == sample.scores_list
            e  == sample.ensemble_score
            inverse == RDiv(RInt(1), RAdd(RInt(1), RMul(RInt(5), Var(sl))))
            boosted == IF RLt(Rat(8, 10), e) \/ RLt(e, Rat(2, 10))
                       THEN RMul(inverse, Rat(11, 10)) ELSE inverse
            clamped == IF RLt(boosted, Rat(65, 100)) THEN Rat(65, 100)
                       ELSE IF RLt(Rat(95, 100), boosted) THEN Rat(95, 100)
                       ELSE boosted
        IN  /\ result.confidence = clamped
            /\ result.confidence # RInt(1)
            /\ Len(sl) = 1 => (Var(sl) = RInt(0) /\ result.confidence = Rat(95, 100))
            /\ sl = NearIdenticalScores =>
                  /\ e = Rat(262, 1000)
                  /\ Var(sl) = Rat(1216, 1000000)
                  /\ result.confidence = Rat(95, 100)

\* the confidence of the five near-identical scores was computed: about
\* 0.9940 before the clamp
C17_Witness ==
    /\ op = "confidence"
    /\ sample.scores_list = NearIdenticalScores
    /\ RLt(Rat(99, 100),
           RDiv(RInt(1), RAdd(RInt(1), RMul(RInt(5), Var(sample.scores_list)))))
    /\ result.confidence = Rat(95, 100)

\* C16: ensemble_score is the arithmetic mean of exactly the detector scores
\* present (three without an LSTM score, four with one), and the raw verdict
\* is true exactly when ensemble_score is strictly greater than 0.55: a
\* score equal to the threshold is not an anomaly.
C16_MeanOfPresentStrictThreshold ==
    Called("detect") =>
        LET three == RAdd(RAdd(sample.ae, sample.iforest), sample.lof)
            e     == result.ensemble_score
            raw   == e[1] * 100 > 55 * e[2]
        IN  /\ sample.lstm = None => RMul(e, RInt(3)) = three
            /\ sample.lstm # None => RMul(e, RInt(4)) = RAdd(three, sample.lstm)
            /\ ~sample.apply_realism => result.is_anomaly = raw
            /\ sample.apply_realism =>
                  result.is_anomaly = _apply_realism(raw, e, sample.draw)
            /\ (e = Rat(55, 100) /\ ~sample.apply_realism)
                  => result.is_anomaly = FALSE

\* three detectors score 0.55 and the sequence detector gives no score: the
\* mean is the threshold itself
C16_Witness ==
    /\ Called("detect")
    /\ sample.lstm = None
    /\ ~sample.apply_realism
    /\ result.ensemble_score = ENSEMBLE_THRESHOLD
    /\ result.is_anomaly = FALSE

\* the features of the call's vector that match requirement r: present, and
\* value >= threshold * (baseline mean + 0.001)
Matches(r) ==
    /\ r.feature \in DOMAIN features
    /\ RLe(RMul(r.threshold, RAdd(baselines[r.feature].mean, Rat(1, 1000))),
           features[r.feature])

\* weight * min((multiplier - threshold) / threshold, 1.0) of a requirement
MatchContribution(r) ==
    LET multiplier == RDiv(features[r.feature],
                           RAdd(baselines[r.feature].mean, Rat(1, 1000)))
        excess == RDiv(RSub(multiplier, r.threshold), r.threshold)
    IN  RMul(r.weight, IF RLt(excess, RInt(1)) THEN excess ELSE RInt(1))

\* C18: for every technique, a required feature present in the input matches
\* exactly when value / (baseline mean + 0.001) >= threshold and contributes
\* weight * min((multiplier - threshold) / threshold, 1.0); the score is 0
\* when nothing matched and otherwise min(weighted sum / total weight +
\* min(0.05 * matches, 0.2), 0.95), the total weight summing the weights of
\* the matched features only.
C18_TechniqueScore ==
    Called("attribute") =>
        \A n \in 1..Len(techniques) :
            LET reqs == techniques[n].features
                st   == _score_technique(features, baselines, techniques[n])
                matched == {i \in 1..Len(reqs) : Matches(reqs[i])}
                weighted_sum ==
                    RSum([i \in 1..Len(reqs) |->
                            IF i \in matched THEN MatchContribution(reqs[i])
                            ELSE RInt(0)])
                total_weight ==
                    RSum([i \in 1..Len(reqs) |->
                            IF i \in matched THEN reqs[i].weight ELSE RInt(0)])
                bonus == IF Cardinality(matched) * 5 < 20
                         THEN Rat(Cardinality(matched) * 5, 100) ELSE Rat(2, 10)
                sum   == RAdd(RDiv(weighted_sum, total_weight), bonus)
            IN  /\ {st.matched_features[j] : j \in 1..Len(st.matched_features)}
                      = {reqs[i].feature : i \in matched}
                /\ Len(st.matched_features) = Cardinality(matched)
                /\ st.score = IF matched = {} THEN RInt(0)
                              ELSE IF RLt(sum, Rat(95, 100)) THEN sum
                              ELSE Rat(95, 100)
                /\ \A i \in 1..Len(result) :
                      result[i].technique_id = techniques[n].id
                          => /\ result[i].confidence = st.score
                             /\ result[i].matched_features = st.matched_features

\* T1190 matches on all five of its features, so the bonus is held at 0.2,
\* one of them exactly at its threshold: score 0.35 + 0.2
C18_Witness ==
    /\ Called("attribute")
    /\ top_k = 3
    /\ LET st == _score_technique(features, baselines, techniques[7])
       IN  /\ Len(st.matched_features) = 5
           /\ st.score = Rat(55, 100)
    /\ \E i \in 1..Len(result) : result[i].technique_id = "T1190"

\* the FeatureContributions of all computed contributions, in rank order
AllContributions ==
    LET ranked == RankedContributions(features, baselines)
    IN  [i \in 1..Len(ranked) |-> ranked[i].contrib]

\* the advisory sentence h is part of the returned explanation
Advises(h) ==
    \E i \in 1..Len(result.explanation.context) :
        result.explanation.context[i] = h

\* C19 (as stated): the contextual rules are evaluated over all computed
\* contributions: whenever at least one contribution is asked for, the
\* brute-force hint is appended if failed_logins has multiplier > 2.0 and the
\* resource-hijacking hint if cpu_usage and network_out both have multiplier
\* > 2.5, whatever the rank of those features.
C19_Original ==
    (Called("explain") /\ top_k >= 1) =>
        /\ AnyAbove(AllContributions, "failed_logins", RInt(2))
              => Advises(HintBruteForce)
        /\ (/\ AnyAbove(AllContributions, "cpu_usage", Rat(25, 10))
            /\ AnyAbove(AllContributions, "network_out", Rat(25, 10)))
              => Advises(HintHijack)

\* the raw disk_read value is more than twice its baseline mean
DiskReadHigh ==
    /\ "disk_read" \in DOMAIN features
    /\ RLt(RMul(RInt(2), baselines["disk_read"].mean), features["disk_read"])

BandLabel(m) ==
    CASE RLt(Rat(15, 10), m)                          -> "significantly elevated"
      [] RLt(Rat(12, 10), m) /\ RLe(m, Rat(15, 10))  -> "moderately elevated"
      [] RLt(RInt(1), m) /\ RLe(m, Rat(12, 10))      -> "slightly elevated"
      [] RLt(m, Rat(6, 10))                           -> "significantly reduced"
      [] RLe(Rat(6, 10), m) /\ RLt(m, Rat(8, 10))    -> "moderately reduced"
      [] RLe(Rat(8, 10), m) /\ RLe(m, RInt(1))       -> "slightly reduced"

\* C21: explain_anomaly renders one feature line for each of the first 3
\* entries of the returned (top_k-truncated) contribution list and for no
\* other entry; each line names its entry's feature and labels it by the
\* entry's deviation_multiplier m: m > 1.5 significantly elevated,
\* 1.2 < m <= 1.5 moderately elevated, 1.0 < m <= 1.2 slightly elevated,
\* m < 0.6 significantly reduced, 0.6 <= m < 0.8 moderately reduced, and
\* 0.8 <= m <= 1.0 (exactly 1.0 included) slightly reduced.
C21_TopThreeSeverityBands ==
    (Called("explain") /\ result.contributions # <<>>) =>
        LET returned == result.contributions
            lines    == result.explanation.lines
        IN  /\ Len(lines) = (IF Len(returned) < 3 THEN Len(returned) ELSE 3)
            /\ \A i \in 1..Len(lines) :
                  /\ lines[i].name = Title(returned[i].feature)
                  /\ lines[i].severity
                        = BandLabel(returned[i].deviation_multiplier)

\* four contributions were returned and three lines rendered, one of them
\* for a multiplier above 1.5 and one for a multiplier in [0.8, 1.0]
C21_Witness ==
    /\ Called("explain")
    /\ Len(result.contributions) = 4
    /\ Len(result.explanation.lines) = 3
    /\ \E i, j \in 1..3 :
          /\ result.explanation.lines[i].severity = "significantly elevated"
          /\ result.explanation.lines[j].severity = "slightly reduced"
          /\ RLe(Rat(8, 10), result.contributions[j].deviation_multiplier)

\* C22: when no key of the feature vector is a known feature,
\* explain_anomaly returns an empty contribution list and an explanation that
\* is exactly the fixed text "No significant deviations detected.", with no
\* feature line and no contextual sentence.
C22_NoContributionsFixedText ==
    (Called("explain") /\ DOMAIN features \cap FeatureNames = {}) =>
        /\ result.contributions = <<>>
        /\ result.explanation.header = "No significant deviations detected."
        /\ result.explanation.lines = <<>>
        /\ result.explanation.context = <<>>

\* explain_anomaly was asked for at least one contribution of a vector that
\* carries a key, none of them a known feature
C22_Witness ==
    /\ Called("explain")
    /\ top_k >= 1
    /\ DOMAIN features # {}
    /\ DOMAIN features \cap FeatureNames = {}
    /\ result.explanation.header = NoDeviations

\* the verdict of the threshold comparison alone, before the realism
\* adjustment, for the scores of the held detect call
RawVerdict == RLt(ENSEMBLE_THRESHOLD, result.ensemble_score)

\* C24: with the default threshold 0.55, every verdict detect returns with
\* the realism adjustment applied satisfies: is_anomaly true implies
\* ensemble_score > 0.4, is_anomaly false implies ensemble_score < 0.75; and
\* the adjustment flips the raw verdict at most once: a raw false verdict
\* flipped to true (draw below 0.08, score above 0.4) is returned as true even
\* when the draw and the score would also satisfy the missed-detection rule.
C24_VerdictScoreBounds ==
    (Called("detect") /\ sample.apply_realism) =>
        LET e == result.ensemble_score
            d == sample.draw
        IN  /\ result.is_anomaly => e[1] * 10 > 4 * e[2]
            /\ ~result.is_anomaly => e[1] * 100 < 75 * e[2]
            /\ (~RawVerdict /\ d[1] * 100 < 8 * d[2] /\ e[1] * 10 > 4 * e[2])
                  => result.is_anomaly
            /\ (RawVerdict /\ d[1] * 100 < 12 * d[2] /\ e[1] * 100 < 75 * e[2])
                  => ~result.is_anomaly

\* a raw false verdict with score in (0.4, 0.55] was flipped to true by a
\* draw that is also below the missed-detection rate, and stayed true
C24_Witness ==
    /\ Called("detect")
    /\ sample.apply_realism
    /\ ~RawVerdict
    /\ RLt(Rat(4, 10), result.ensemble_score)
    /\ RLt(sample.draw, FALSE_POSITIVE_RATE)
    /\ result.is_anomaly

\* the registry entry of the technique with identifier id
TechniqueById(id) == techniques[CHOOSE n \in 1..Len(techniques) : techniques[n].id = id]

\* the required features of reqs that match, in declaration order
MatchedInOrder(reqs) ==
    LET sel == SelectSeq(reqs, Matches)
    IN  [j \in 1..Len(sel) |-> sel[j].feature]

\* C25: every technique match map_to_techniques returns has a non-empty
\* matched_features list holding exactly the technique's required features
\* whose multiplier reached their threshold, in the order the technique
\* declares them; its confidence exceeds its match-count bonus
\* min(0.05 * matches, 0.2), which is at most 0.2 and so below the floor 0.3:
\* no technique is returned on the bonus alone.
C25_MatchedFeaturesExact ==
    Called("attribute") =>
        \A i \in 1..Len(result) :
            LET reqs    == TechniqueById(result[i].technique_id).features
                matched == result[i].matched_features
                bonus   == IF Len(matched) * 5 < 20
                           THEN Rat(Len(matched) * 5, 100) ELSE Rat(2, 10)
            IN  /\ matched # <<>>
                /\ matched = MatchedInOrder(reqs)
                /\ RLe(bonus, Rat(2, 10))
                /\ RLt(bonus, result[i].confidence)

\* a returned technique matched two or more of its features while another
\* of its required features is present in the input below its threshold
C25_Witness ==
    /\ Called("attribute")
    /\ \E i \in 1..Len(result) :
          LET reqs == TechniqueById(result[i].technique_id).features
          IN  /\ Len(result[i].matched_features) >= 2
              /\ \E j \in 1..Len(reqs) :
                    /\ reqs[j].feature \in DOMAIN features
                    /\ ~Matches(reqs[j])

\* the multiplier of requirement r's feature equals r's threshold exactly
AtThreshold(r) ==
    /\ r.feature \in DOMAIN features
    /\ Multiplier(features[r.feature], baselines[r.feature].mean) = r.threshold

\* the input with the feature of r lowered to nine tenths of its value
JustBelow(r) ==
    [f \in DOMAIN features |->
        IF f = r.feature THEN RMul(features[f], Rat(9, 10)) ELSE features[f]]

\* C26: in _score_technique a feature whose multiplier equals its threshold
\* exactly is matched with contribution 0: against the same input with that
\* feature below its threshold, it is listed in matched_features, total_weight
\* is larger by its weight and weighted_score is the same; so whenever
\* weighted_score is positive (another matched feature contributes) the
\* normalized score weighted_score / total_weight is strictly lower with the
\* feature matched than with it below its threshold.
C26_ThresholdMatchDilutes ==
    Called("attribute") =>
        \A n \in 1..Len(techniques) :
            LET reqs == techniques[n].features
            IN  \A j \in 1..Len(reqs) :
                  AtThreshold(reqs[j]) =>
                    LET at    == MatchLoop(features, baselines, reqs, Len(reqs))
                        below == MatchLoop(JustBelow(reqs[j]), baselines, reqs,
                                           Len(reqs))
                    IN  /\ \E i \in 1..Len(at.matched_features) :
                              at.matched_features[i] = reqs[j].feature
                        /\ \A i \in 1..Len(below.matched_features) :
                              below.matched_features[i] # reqs[j].feature
                        /\ at.total_weight
                              = RAdd(below.total_weight, reqs[j].weight)
                        /\ at.weighted_score = below.weighted_score
                        /\ RLt(RInt(0), at.weighted_score) =>
                              RLt(RDiv(at.weighted_score, at.total_weight),
                                  RDiv(below.weighted_score, below.total_weight))

\* T1110 was scored on an input with failed_logins exactly at its threshold
\* 3.0 and network_out above its threshold 1.5
C26_Witness ==
    /\ Called("attribute")
    /\ AtThreshold(techniques[1].features[1])
    /\ techniques[1].features[1].feature = "failed_logins"
    /\ LET at == MatchLoop(features, baselines, techniques[1].features,
                           Len(techniques[1].features))
       IN  /\ RLt(RInt(0), at.weighted_score)
           /\ Len(at.matched_features) >= 2

\* the positions in broadcasts of the log entries of attack sequence n
LogsOf(n) ==
    {k \in 1..Len(broadcasts) :
        "data" \in DOMAIN broadcasts[k] /\ broadcasts[k].timestamp[1] = n}

\* the positions in broadcasts of the alerts of attack sequence n
AlertsOf(n) ==
    {k \in 1..Len(broadcasts) :
        "type" \in DOMAIN broadcasts[k] /\ broadcasts[k].timestamp[1] = n}

\* the stored incidents of attack sequence n
IncidentsOf(n) == {id \in DOMAIN incidents : incidents[id].timestamp[1] = n}

\* the verdict of the point a log entry was broadcast for
Flagged(k) == detect_single(broadcasts[k].data).is_anomaly

\* C23: in the detection loop the points of one attack sequence are
\* evaluated in order, each one broadcast as a log entry, and processing of
\* the sequence stops at the first point whose verdict is_anomaly: a sequence
\* has at most one alert broadcast and at most one incident stored, both for
\* the last point that was logged, whose verdict is_anomaly; every point
\* logged before it has a verdict that is not is_anomaly and neither an alert
\* nor an incident.
C23_OneIncidentPerSequence ==
    \A n \in 1..attack.n :
        LET logs   == LogsOf(n)
            alerts == AlertsOf(n)
            last   == Cardinality(logs)
        IN  /\ Cardinality(alerts) <= 1
            /\ Cardinality(IncidentsOf(n)) <= 1
            /\ \A k \in logs :
                  LET j == Cardinality({l \in logs : l <= k})
                  IN  /\ broadcasts[k].timestamp = <<n, j>>
                      /\ Flagged(k) => j = last
                      /\ Flagged(k) <=> (k + 1 \in alerts)
            /\ \A k \in alerts :
                  /\ k - 1 \in logs
                  /\ broadcasts[k].timestamp = <<n, last>>
                  /\ broadcasts[k - 1].timestamp = <<n, last>>
            /\ \A id \in IncidentsOf(n) :
                  /\ incidents[id].timestamp = <<n, last>>
                  /\ incidents[id].anomaly_scores.is_anomaly
                  /\ \E k \in alerts : broadcasts[k].incident_id = id

\* the first sequence ended at its second point: the first point was logged
\* with a verdict that is not is_anomaly, the second was logged, stored as an
\* incident and alerted, and the third, which the detectors would have
\* flagged too, was never evaluated
C23_Witness ==
    /\ attack.n = 1
    /\ attack.pc = "idle"
    /\ Len(broadcasts) = 3
    /\ LogsOf(1) = {1, 2}
    /\ AlertsOf(1) = {3}
    /\ ~Flagged(1)
    /\ Cardinality(IncidentsOf(1)) = 1
    /\ detect_single(attack.sequence[3]).is_anomaly

\* the identifiers of the steps of the playbook with identifier playbook_id,
\* in playbook order
StepIdsOf(playbook_id) ==
    LET pb == Playbooks[CHOOSE n \in 1..Len(Playbooks) :
                            Playbooks[n].id = playbook_id]
    IN  [i \in 1..Len(pb.steps) |-> pb.steps[i].id]

\* C27: start_session for a known playbook appends one session to the
\* sessions map and returns it: its identifier is that of no earlier session,
\* it carries the incident and the playbook of the call, current_step_index
\* is 0, completed is false, the playbook's first step is IN_PROGRESS and
\* every other step of the playbook PENDING; every session that existed
\* before is unchanged.
C27_StartSessionRegisters ==
    [][(op' = "start_session" /\ error' = "none") =>
          LET new == sessions'[Len(sessions')]
              ids == StepIdsOf(sample'.playbook_id)
          IN  /\ Len(sessions') = Len(sessions) + 1
              /\ \A k \in 1..Len(sessions) :
                    /\ sessions'[k] = sessions[k]
                    /\ sessions[k].session_id # new.session_id
              /\ result' = new
              /\ new.incident_id = sample'.incident_id
              /\ new.playbook_id = sample'.playbook_id
              /\ new.current_step_index = 0
              /\ new.completed = FALSE
              /\ DOMAIN new.step_statuses = {ids[i] : i \in 1..Len(ids)}
              /\ \A i \in 1..Len(ids) :
                    new.step_statuses[ids[i]]
                        = (IF i = 1 THEN IN_PROGRESS ELSE PENDING)]_vars

\* a second session was started after the first one had advanced to its
\* third step
C27_Witness ==
    /\ op = "start_session"
    /\ error = "none"
    /\ Len(sessions) = 2
    /\ sessions[1].current_step_index = 2
    /\ sessions[2] = result
    /\ result.step_statuses["s1"] = IN_PROGRESS

\* the position in sessions of the session the held call names
Target(ss, call) ==
    CHOOSE k \in 1..Len(ss) : ss[k].session_id = call.session_id

\* C28: an update_step call with status COMPLETED or SKIPPED on the step at
\* position p (counted from 0) of the session's playbook, p not the last
\* position, sets current_step_index to p + 1 and the status of the step at
\* p + 1 to IN_PROGRESS, whatever that status and current_step_index were
\* before; a call with status PENDING or IN_PROGRESS, or with a step
\* identifier that is not in the playbook, leaves current_step_index and the
\* status of every other step as they were.
C28_UpdateStepAdvances ==
    [][(op' = "update_step" /\ error' = "none") =>
          LET k      == Target(sessions, sample')
              before == sessions[k]
              after  == sessions'[k]
              ids    == StepIdsOf(before.playbook_id)
              known  == \E i \in 1..Len(ids) : ids[i] = sample'.step_id
              closes == sample'.status \in {COMPLETED, SKIPPED}
          IN  /\ after.step_statuses[sample'.step_id] = sample'.status
                    \/ (closes /\ known)
              /\ \A i \in 1..(Len(ids) - 1) :
                    (closes /\ ids[i] = sample'.step_id) =>
                        /\ after.current_step_index = i
                        /\ after.step_statuses[ids[i + 1]] = IN_PROGRESS
                        /\ after.step_statuses[ids[i]] = sample'.status
                        /\ \A x \in DOMAIN before.step_statuses
                                      \ {ids[i], ids[i + 1]} :
                              after.step_statuses[x] = before.step_statuses[x]
              /\ (~closes \/ ~known) =>
                    /\ after.current_step_index = before.current_step_index
                    /\ after.completed = before.completed
                    /\ \A x \in DOMAIN before.step_statuses
                                  \ {sample'.step_id} :
                          after.step_statuses[x] = before.step_statuses[x]]_vars

\* the first step was completed after the second had been: the second step
\* went from COMPLETED back to IN_PROGRESS and current_step_index from 2 to 1
C28_Witness ==
    /\ op = "update_step"
    /\ error = "none"
    /\ sample.step_id = "s1"
    /\ sample.status = COMPLETED
    /\ result.current_step_index = 1
    /\ result.step_statuses["s2"] = IN_PROGRESS
    /\ result.step_statuses["s3"] = IN_PROGRESS

\* the held call finishes the last step of the playbook of session: an
\* update_step with COMPLETED or SKIPPED, or an execute_automation that ran
\* the step's hook
FinishesLastStep(session, o, call, outcome) ==
    LET ids == StepIdsOf(session.playbook_id)
    IN  /\ call.session_id = session.session_id
        /\ call.step_id = ids[Len(ids)]
        /\ \/ o = "update_step" /\ call.status \in {COMPLETED, SKIPPED}
           \/ o = "execute_automation" /\ outcome.status = "success"

\* C29: over any sequence of calls, completed of a session becomes true
\* only in an update_step with COMPLETED or SKIPPED on the last step of the
\* session's playbook (made directly or by execute_automation), such a call
\* always leaves it true, and once true it is never false again;
\* get_session_by_incident never returns a completed session.
C29_CompletedOnlyAtLastStep ==
    /\ [](op = "get_session_by_incident" =>
            \/ DOMAIN result = {}
            \/ (~result.completed /\ result.incident_id = sample.incident_id))
    /\ [][\A k \in 1..Len(sessions) :
            /\ sessions[k].completed => sessions'[k].completed
            /\ (~sessions[k].completed /\ sessions'[k].completed)
                  => FinishesLastStep(sessions[k], op', sample', result')
            /\ (error' = "none" /\ op' \in {"update_step", "execute_automation"}
                   /\ FinishesLastStep(sessions[k], op', sample', result'))
                  => sessions'[k].completed]_vars

\* the incident has two sessions, the later one completed:
\* get_session_by_incident returned the earlier one, which has been
\* updated after the later one was completed
C29_Witness ==
    /\ op = "get_session_by_incident"
    /\ Len(sessions) = 2
    /\ sessions[2].incident_id = sample.incident_id
    /\ sessions[2].completed
    /\ sessions[2].step_statuses["s1"] = COMPLETED
    /\ result = sessions[1]

\* the playbook of session has a step step_id with an automation hook
HasHook(session, step_id) ==
    \E n \in 1..Len(Playbooks) :
        /\ Playbooks[n].id = session.playbook_id
        /\ \E i \in 1..Len(Playbooks[n].steps) :
              /\ Playbooks[n].steps[i].id = step_id
              /\ Playbooks[n].steps[i].automationHook # ""

\* no session has the identifier the call names
UnknownSession(ss, call) ==
    \A k \in 1..Len(ss) : ss[k].session_id # call.session_id

\* C30: start_session with a playbook identifier that is in no playbook,
\* and update_step or execute_automation with a session identifier that is
\* in no session, raise ValueError, and no call raises otherwise; a call
\* that raises leaves the sessions map and every session unchanged;
\* execute_automation on a step that is not in the session's playbook or has
\* no automation hook returns the status "failed" and leaves the sessions
\* unchanged, and returns "success" otherwise.
C30_ErrorsLeaveSessions ==
    [][/\ error' = "ValueError" => sessions' = sessions
       /\ op' = "start_session" =>
             ((error' = "ValueError")
                <=> (\A n \in 1..Len(Playbooks) :
                        Playbooks[n].id # sample'.playbook_id))
       /\ op' \in {"update_step", "execute_automation"} =>
             ((error' = "ValueError") <=> UnknownSession(sessions, sample'))
       /\ op' = "get_session_by_incident" => error' = "none"
       /\ (op' = "execute_automation" /\ error' = "none") =>
             LET session == sessions[Target(sessions, sample')]
             IN  IF HasHook(session, sample'.step_id)
                 THEN result'.status = "success"
                 ELSE /\ result'.status = "failed"
                      /\ sessions' = sessions]_vars

\* with two sessions started and the first one advanced, an update_step
\* named a session identifier that was never issued
C30_Witness ==
    /\ op = "update_step"
    /\ error = "ValueError"
    /\ Len(sessions) = 2
    /\ sessions[1].current_step_index > 0
    /\ UnknownSession(sessions, sample)

====
